---------------------------- MODULE Spec2Model ----------------------------
(* PigWebApp bulk import: the server's create and patch handlers           *)
(* (server/src/bulkapi.rs), the patch engine (common/src/bulk.rs) and the  *)
(* duplicate query (common/src/pigs.rs), as a state machine over the two   *)
(* tables pigs and bulk_imports. Each handler holds the connection mutex    *)
(* from its first query to its return, so a request is one step.           *)
(* The bulk page of the client (client/src/pages/bulkpage.rs) and its       *)
(* endpoint handles (client/src/data/api.rs) talk to these handlers over    *)
(* net, the requests the client has issued.                                *)
(*                                                                         *)
(* A String is a sequence of characters; a character is a one-element      *)
(* string, or the name of a typographic character ("ldquo", "emdash").     *)
EXTENDS Integers, Sequences, FiniteSets, TLC

VARIABLES
    pigs,          \* table pigs: set of rows [id, name, creator]
    bulk_imports,  \* table bulk_imports: set of BulkImport rows
    clock,         \* Utc::now()
    last,          \* the request handled last: its input, what its queries
                   \* returned, and its response
    client,        \* BulkPage and BulkPageRender of the one operator
    net,           \* the requests the client issued, in the order of issue
    db_connection, \* the Mutex around the PgConnection: None, or Some(thread)
                   \* that holds its guard
    handler        \* per thread of the server: where its handler stands
                   \* and the locals it holds

vars == <<pigs, bulk_imports, clock, last, client, net, db_connection, handler>>

-----------------------------------------------------------------------------
(* Bounds *)

MaxBatch == 3      \* longest list of names in a create request
MaxLen == 1        \* longest bucket a patch may leave
MaxImports == 1    \* rows of bulk_imports
MaxClock == 1      \* last clock value
MaxSeedLen == 3    \* entries of the stored import a patch request finds

-----------------------------------------------------------------------------
(* Option<T> *)

None == <<>>
Some(x) == <<x>>
IsSome(o) == Len(o) = 1
Unwrap(o) == o[1]

Min(a, b) == IF a < b THEN a ELSE b
Max(a, b) == IF a > b THEN a ELSE b

-----------------------------------------------------------------------------
(* Strings *)

UpperSeq == <<"A","B","C","D","E","F","G","H","I","J","K","L","M",
              "N","O","P","Q","R","S","T","U","V","W","X","Y","Z">>
LowerSeq == <<"a","b","c","d","e","f","g","h","i","j","k","l","m",
              "n","o","p","q","r","s","t","u","v","w","x","y","z">>

Whitespace == {" ", "tab", "nbsp"}

ToAsciiLowercaseChar(c) ==
    IF \E i \in 1..26 : UpperSeq[i] = c
    THEN LowerSeq[CHOOSE i \in 1..26 : UpperSeq[i] = c]
    ELSE c

ToAsciiLowercase(s) == [i \in 1..Len(s) |-> ToAsciiLowercaseChar(s[i])]

eq_ignore_ascii_case(a, b) == ToAsciiLowercase(a) = ToAsciiLowercase(b)

RECURSIVE TrimStart(_)
TrimStart(s) ==
    IF s # <<>> /\ Head(s) \in Whitespace THEN TrimStart(Tail(s)) ELSE s

RECURSIVE TrimEnd(_)
TrimEnd(s) ==
    IF s # <<>> /\ s[Len(s)] \in Whitespace
    THEN TrimEnd(SubSeq(s, 1, Len(s) - 1))
    ELSE s

trim(s) == TrimEnd(TrimStart(s))

CleanupChar(c) ==
    CASE c \in {"ldquo", "rdquo"} -> "\""
      [] c \in {"lsquo", "rsquo"} -> "'"
      [] c \in {"figdash", "endash", "emdash", "2emdash", "3emdash"} -> "-"
      [] OTHER -> c

Cleanup(input) == LET t == trim(input) IN [i \in 1..Len(t) |-> CleanupChar(t[i])]

-----------------------------------------------------------------------------
(* Duplicate query: PigQuery::default().with_name(name).with_limit(10) *)

DuplicateLimit == 10

IsWordChar(c) ==
    \/ \E i \in 1..26 : UpperSeq[i] = c \/ LowerSeq[i] = c
    \/ c \in {"0","1","2","3","4","5","6","7","8","9"}

\* the lexemes of a text: its maximal runs of letters and digits, lowercased
RECURSIVE Lexemes(_, _)
Lexemes(s, cur) ==
    IF s = <<>>
    THEN IF cur = <<>> THEN {} ELSE {cur}
    ELSE IF IsWordChar(Head(s))
         THEN Lexemes(Tail(s), Append(cur, ToAsciiLowercaseChar(Head(s))))
         ELSE (IF cur = <<>> THEN {} ELSE {cur}) \cup Lexemes(Tail(s), <<>>)

to_tsvector(s) == Lexemes(s, <<>>)
plainto_tsquery(s) == Lexemes(s, <<>>)

\* tsvector @@ tsquery: every lexeme of the query occurs; an empty query matches nothing
matches(tsvector, tsquery) == tsquery # {} /\ tsquery \subseteq tsvector

\* name ILIKE '%q%'
ilike_contains(name, q) ==
    LET n == ToAsciiLowercase(name)
        p == ToAsciiLowercase(q)
    IN \E k \in 0..(Len(n) - Len(p)) : SubSeq(n, k + 1, k + Len(p)) = p

PigMatches(pig, query_name) ==
    \/ matches(to_tsvector(pig.name), plainto_tsquery(query_name))
    \/ ilike_contains(pig.name, query_name)

\* the orders in which the rows of a set can be returned
Orderings(S) ==
    {o \in [1..Cardinality(S) -> S] : \A i, j \in 1..Cardinality(S) : o[i] = o[j] => i = j}

\* the result lists the query can return: no ORDER BY, so any order of the
\* matching rows, cut at the limit
DuplicateResults(table, query_name) ==
    LET hits == {p \in table : PigMatches(p, query_name)}
    IN {SubSeq(o, 1, Min(DuplicateLimit, Len(o))) : o \in Orderings(hits)}

-----------------------------------------------------------------------------
(* Patch engine: common/src/bulk.rs *)

ADD(e) == [op |-> "ADD", a |-> e, b |-> e]
REMOVE(e) == [op |-> "REMOVE", a |-> e, b |-> e]
UPDATE(old, new) == [op |-> "UPDATE", a |-> old, b |-> new]

\* vec.iter().position(|r| r.eq(e)): index of the first occurrence, 0 for None
Position(vec, e) ==
    IF \E i \in 1..Len(vec) : vec[i] = e
    THEN CHOOSE i \in 1..Len(vec) : vec[i] = e /\ \A j \in 1..(i - 1) : vec[j] # e
    ELSE 0

RemoveAt(vec, i) == SubSeq(vec, 1, i - 1) \o SubSeq(vec, i + 1, Len(vec))

\* perform_action whose ADD skips a value the list holds
perform_action_AddOnce(action, vec) ==
    CASE action.op = "ADD" -> IF Position(vec, action.a) # 0 THEN vec ELSE Append(vec, action.a)
      [] action.op = "REMOVE" ->
            LET pos == Position(vec, action.a)
            IN IF pos # 0 THEN RemoveAt(vec, pos) ELSE vec
      [] action.op = "UPDATE" ->
            LET pos == Position(vec, action.a)
            IN IF pos # 0 THEN [vec EXCEPT ![pos] = action.b] ELSE vec

\* perform_action whose UPDATE replaces every occurrence
perform_action_UpdateAll(action, vec) ==
    CASE action.op = "ADD" -> Append(vec, action.a)
      [] action.op = "REMOVE" ->
            LET pos == Position(vec, action.a)
            IN IF pos # 0 THEN RemoveAt(vec, pos) ELSE vec
      [] action.op = "UPDATE" ->
            [i \in 1..Len(vec) |-> IF vec[i] = action.a THEN action.b ELSE vec[i]]

\* perform_action whose REMOVE takes out every occurrence
perform_action_RemoveAll(action, vec) ==
    CASE action.op = "ADD" -> Append(vec, action.a)
      [] action.op = "REMOVE" ->
            LET Keep(e) == e # action.a
            IN SelectSeq(vec, Keep)
      [] action.op = "UPDATE" ->
            LET pos == Position(vec, action.a)
            IN IF pos # 0 THEN [vec EXCEPT ![pos] = action.b] ELSE vec

perform_action(action, vec) ==
    CASE action.op = "ADD" -> Append(vec, action.a)
      [] action.op = "REMOVE" ->
            LET pos == Position(vec, action.a)
            IN IF pos # 0 THEN RemoveAt(vec, pos) ELSE vec
      [] action.op = "UPDATE" ->
            LET pos == Position(vec, action.a)
            IN IF pos # 0 THEN [vec EXCEPT ![pos] = action.b] ELSE vec

\* perform_actions that starts with the last action of the list
RECURSIVE perform_actions_Reversed(_, _)
perform_actions_Reversed(actions, vec) ==
    IF actions = <<>>
    THEN vec
    ELSE perform_action(Head(actions), perform_actions_Reversed(Tail(actions), vec))

RECURSIVE perform_actions(_, _)
perform_actions(actions, vec) ==
    IF actions = <<>>
    THEN vec
    ELSE perform_actions(Tail(actions), perform_action(Head(actions), vec))

\* update_import with the pending actions left out
update_import_SkipsPending(patch, import) ==
    LET a == IF IsSome(patch.accepted)
             THEN perform_actions(Unwrap(patch.accepted), import.accepted)
             ELSE import.accepted
        r == IF IsSome(patch.rejected)
             THEN perform_actions(Unwrap(patch.rejected), import.rejected)
             ELSE import.rejected
    IN [import EXCEPT !.accepted = a, !.rejected = r]

\* update_import with the accepted actions left out
update_import_SkipsAccepted(patch, import) ==
    LET p == IF IsSome(patch.pending)
             THEN perform_actions(Unwrap(patch.pending), import.pending)
             ELSE import.pending
        r == IF IsSome(patch.rejected)
             THEN perform_actions(Unwrap(patch.rejected), import.rejected)
             ELSE import.rejected
    IN [import EXCEPT !.pending = p, !.rejected = r]

\* a BulkPatch is [id, pending, accepted, rejected], each list an Option
update_import(patch, import) ==
    LET p == IF IsSome(patch.pending)
             THEN perform_actions(Unwrap(patch.pending), import.pending)
             ELSE import.pending
        a == IF IsSome(patch.accepted)
             THEN perform_actions(Unwrap(patch.accepted), import.accepted)
             ELSE import.accepted
        r == IF IsSome(patch.rejected)
             THEN perform_actions(Unwrap(patch.rejected), import.rejected)
             ELSE import.rejected
    IN [import EXCEPT !.pending = p, !.accepted = a, !.rejected = r]

-----------------------------------------------------------------------------
(* Users and roles: server/src/userapi.rs, server/src/config.rs *)

Users == {"editor", "guest"}

AllRoles == {"PigViewer", "PigEditor", "BulkEditor", "BulkAdmin",
             "UserViewer", "UserAdmin", "LogViewer"}

\* the deployment: OIDC configured, one group granting the editing roles
ConfigOidcIsNone == FALSE
ConfigGroups == [editors |-> {"PigViewer", "PigEditor", "BulkEditor"},
                 admins |-> {"BulkAdmin"}]
UserGroups == [editor |-> <<"editors">>, guest |-> <<"visitors">>,
               other |-> <<"editors">>, admin |-> <<"admins">>,
               chief |-> <<"editors", "admins">>]

get_user_roles(user) ==
    IF ConfigOidcIsNone \/ DOMAIN ConfigGroups = {}
    THEN AllRoles
    ELSE UNION {ConfigGroups[UserGroups[user][i]] :
                  i \in {j \in 1..Len(UserGroups[user]) : UserGroups[user][j] \in DOMAIN ConfigGroups}}

\* user_has_role that grants every role
user_has_role_Always(user, role) == TRUE

user_has_role(user, role) == ConfigOidcIsNone \/ role \in get_user_roles(user)

-----------------------------------------------------------------------------
(* Names *)

Bob == <<"B", "o", "b">>
LowerBob == <<"b", "o", "b">>
PaddedBob == <<" ", "B", "o", "b", " ">>
BobS == <<"B", "o", "b", " ", "S">>
BobJ == <<"B", "o", "b", " ", "J">>
Dash == <<"emdash">>

\* the strings a create request may carry
RawNames == {Bob, LowerBob, PaddedBob, Dash}

\* the contents of table pigs before the first request
SeedStores ==
    { {},
      {[id |-> 1, name |-> Bob, creator |-> "editor"]},
      {[id |-> 1, name |-> BobS, creator |-> "editor"]},
      {[id |-> 1, name |-> BobS, creator |-> "editor"],
       [id |-> 2, name |-> BobJ, creator |-> "editor"]},
      {[id |-> 1, name |-> Bob, creator |-> "editor"],
       [id |-> 2, name |-> BobS, creator |-> "editor"]} }

Batches(Raw, n) == UNION {[1..k -> Raw] : k \in 0..n}

Contains(vec, e) == \E i \in 1..Len(vec) : vec[i] = e

\* Uuid::new_v4(): an id no row has
NewPigId(table) == CHOOSE i \in 1..(Cardinality(table) + 1) : \A p \in table : p.id # i
NewImportId(table) == CHOOSE i \in 1..(Cardinality(table) + 1) : \A r \in table : r.id # i

\* ids no row ever gets
UnknownImportId == 0

-----------------------------------------------------------------------------
(* api_bulk_create: server/src/bulkapi.rs *)

\* line 78: the test that sends a name with duplicates to rejected
IsExactDuplicate(duplicates, name) ==
    Len(duplicates) >= 2 /\ eq_ignore_ascii_case(duplicates[2].name, name)

\* AlreadyPending without the test
AlreadyPending_Never(pending, name) == FALSE

\* line 66: the name is skipped
AlreadyPending(pending, name) == Contains(pending, name)

\* Pig::new with a lower-cased name
NewPig_LowerCased(table, name, creator) ==
    [id |-> NewPigId(table), name |-> ToAsciiLowercase(name), creator |-> creator]

\* line 87, Pig::new(name, creator)
NewPig(table, name, creator) == [id |-> NewPigId(table), name |-> name, creator |-> creator]

\* one classification, recorded for the request
Event(input, name, search, duplicates, insert, bucket) ==
    [input |-> input, name |-> name, search |-> search,
     duplicates |-> duplicates, insert |-> insert, bucket |-> bucket]

\* lines 75-101, given what the duplicate query returned: the loop states
\* the iteration can end in (the insert may succeed or fail)
ClassifyFound(st, input, name, duplicates, creator) ==
    IF Len(duplicates) > 0
    THEN IF IsExactDuplicate(duplicates, name)
         THEN {[st EXCEPT !.rejected = Append(@, name),
                          !.log = Append(@, Event(input, name, "ok", duplicates, "none", "rejected"))]}
         ELSE {[st EXCEPT !.pending = Append(@, name),
                          !.log = Append(@, Event(input, name, "ok", duplicates, "none", "pending"))]}
    ELSE LET pig == NewPig(st.table, name, creator)
         IN { [st EXCEPT !.accepted = Append(@, pig.id),
                         !.table = @ \cup {pig},
                         !.log = Append(@, Event(input, name, "ok", duplicates, "ok", "accepted"))],
              [st EXCEPT !.pending = Append(@, name),
                         !.log = Append(@, Event(input, name, "ok", duplicates, "err", "pending"))] }

\* ClassifyQueryFailed that drops the name
ClassifyQueryFailed_Dropped(st, input, name) ==
    [st EXCEPT !.log = Append(@, Event(input, name, "err", <<>>, "none", "pending"))]

\* ClassifyQueryFailed that rejects the name
ClassifyQueryFailed_Rejected(st, input, name) ==
    [st EXCEPT !.rejected = Append(@, name),
               !.log = Append(@, Event(input, name, "err", <<>>, "none", "rejected"))]

\* lines 99-101: the duplicate query failed
ClassifyQueryFailed(st, input, name) ==
    [st EXCEPT !.pending = Append(@, name),
               !.log = Append(@, Event(input, name, "err", <<>>, "none", "pending"))]

\* lines 48-102, one iteration of the loop
Classify(st, input, creator) ==
    LET name == Cleanup(input)
        st1 == [st EXCEPT !.import_name = IF IsSome(@) THEN @ ELSE Some(name)]
    IN IF AlreadyPending(st1.pending, name)
       THEN {[st1 EXCEPT !.log = Append(@, Event(input, name, "none", <<>>, "none", "skipped"))]}
       ELSE {ClassifyQueryFailed(st1, input, name)}
            \cup UNION {ClassifyFound(st1, input, name, d, creator) :
                          d \in DuplicateResults(st1.table, name)}

\* ClassifyAll that leaves the loop at the first failed query or insert
RECURSIVE ClassifyAll_AbortOnFailure(_, _, _)
ClassifyAll_AbortOnFailure(st, inputs, creator) ==
    IF inputs = <<>>
    THEN {st}
    ELSE UNION {IF st2.log[Len(st2.log)].search = "err" \/ st2.log[Len(st2.log)].insert = "err"
                THEN {st2}
                ELSE ClassifyAll_AbortOnFailure(st2, Tail(inputs), creator) :
                   st2 \in Classify(st, Head(inputs), creator)}

\* the loop over the inputs: every state it can end in
RECURSIVE ClassifyAll(_, _, _)
ClassifyAll(st, inputs, creator) ==
    IF inputs = <<>>
    THEN {st}
    ELSE UNION {ClassifyAll(st2, Tail(inputs), creator) : st2 \in Classify(st, Head(inputs), creator)}

\* lines 104-107
CreateFinished(pending, now) == IF Len(pending) = 0 THEN Some(now) ELSE None

\* InsertBulkImport that keeps the row of a failed insert
InsertBulkImport_Always(table, res, sql_res) == table \cup {res}

\* lines 121-122: the insert of the new row, which may fail
InsertBulkImport(table, res, sql_res) == IF sql_res = "ok" THEN table \cup {res} ELSE table

unwrap_or_default(o) == IF IsSome(o) THEN Unwrap(o) ELSE <<>>

NoPatch == [id |-> UnknownImportId, pending |-> None, accepted |-> None, rejected |-> None]
NoQuery == [id |-> None, creator |-> None, limit |-> None, offset |-> None]

api_bulk_create(user, names) ==
    IF ~user_has_role(user, "BulkEditor")
    THEN /\ last' = [kind |-> "create", user |-> user, names |-> <<>>, patch |-> NoPatch,
                     query |-> NoQuery, log |-> <<>>, load |-> "none", loaded |-> None, save |-> "none",
                     status |-> 403, body |-> None]
         /\ UNCHANGED <<pigs, bulk_imports, clock>>
    ELSE \E fin \in ClassifyAll([import_name |-> None, pending |-> <<>>, accepted |-> <<>>,
                                 rejected |-> <<>>, table |-> pigs, log |-> <<>>],
                                names, user) :
         \E sql_res \in {"ok", "err"} :
            LET res == [id |-> NewImportId(bulk_imports),
                        name |-> unwrap_or_default(fin.import_name),
                        creator |-> user,
                        started |-> clock,
                        finished |-> CreateFinished(fin.pending, clock),
                        pending |-> fin.pending,
                        accepted |-> fin.accepted,
                        rejected |-> fin.rejected]
            IN /\ pigs' = fin.table
               /\ bulk_imports' = InsertBulkImport(bulk_imports, res, sql_res)
               /\ last' = [kind |-> "create", user |-> user, names |-> names, patch |-> NoPatch,
                           query |-> NoQuery, log |-> fin.log, load |-> "none", loaded |-> None, save |-> sql_res,
                           status |-> IF sql_res = "ok" THEN 201 ELSE 500,
                           body |-> IF sql_res = "ok" THEN Some(res) ELSE None]
               /\ UNCHANGED clock

-----------------------------------------------------------------------------
(* api_bulk_patch: server/src/bulkapi.rs *)

\* PatchFinished that clears finished when names are pending
PatchFinished_Recomputed(import, now) ==
    [import EXCEPT !.finished = IF Len(import.pending) = 0 THEN Some(now) ELSE None]

\* PatchFinished that never sets finished
PatchFinished_NeverSet(import, now) == import

\* lines 166-169
PatchFinished(import, now) ==
    IF Len(import.pending) = 0 THEN [import EXCEPT !.finished = Some(now)] ELSE import

\* UpdateBulkImport that writes the row although the update fails
UpdateBulkImport_Always(table, import, sql_res) ==
    {IF r.id = import.id THEN import ELSE r : r \in table}

\* UpdateBulkImport without the filter on the id: the changeset, which holds
\* every column but the id, is written to every row
UpdateBulkImport_AllRows(table, import, sql_res) ==
    IF sql_res = "ok"
    THEN {[import EXCEPT !.id = r.id] : r \in table}
    ELSE table

\* lines 174-177: the update of the row with the import's id, which may fail
UpdateBulkImport(table, import, sql_res) ==
    IF sql_res = "ok"
    THEN {IF r.id = import.id THEN import ELSE r : r \in table}
    ELSE table

\* loaded: the row as the handler loaded it (line 163), if it got that far
PatchResponse(user, patch, load, loaded, save, status) ==
    [kind |-> "patch", user |-> user, names |-> <<>>, patch |-> patch,
     query |-> NoQuery, log |-> <<>>, load |-> load, loaded |-> loaded, save |-> save,
     status |-> status, body |-> None]

\* api_bulk_patch that answers 404 when the id matches no row
api_bulk_patch_NotFound(user, patch) ==
    IF ~user_has_role(user, "BulkEditor")
    THEN /\ last' = PatchResponse(user, NoPatch, "none", None, "none", 403)
         /\ UNCHANGED <<pigs, bulk_imports, clock>>
    ELSE \E sql_req_res \in {"ok", "err"} :
         LET imports == {r \in bulk_imports : r.id = patch.id}
         IN IF sql_req_res = "err" \/ Cardinality(imports) # 1
            THEN /\ last' = PatchResponse(user, patch, sql_req_res, None, "none",
                                          IF sql_req_res = "ok" THEN 404 ELSE 500)
                 /\ UNCHANGED <<pigs, bulk_imports, clock>>
            ELSE \E sql_res \in {"ok", "err"} :
                 LET row == CHOOSE r \in imports : TRUE
                     import == PatchFinished(update_import(patch, row), clock)
                 IN /\ bulk_imports' = UpdateBulkImport(bulk_imports, import, sql_res)
                    /\ last' = PatchResponse(user, patch, "ok", Some(row), sql_res,
                                             IF sql_res = "ok" THEN 200 ELSE 500)
                    /\ UNCHANGED <<pigs, clock>>

api_bulk_patch(user, patch) ==
    IF ~user_has_role(user, "BulkEditor")
    THEN /\ last' = PatchResponse(user, NoPatch, "none", None, "none", 403)
         /\ UNCHANGED <<pigs, bulk_imports, clock>>
    ELSE \E sql_req_res \in {"ok", "err"} :
         LET imports == {r \in bulk_imports : r.id = patch.id}
         IN IF sql_req_res = "err" \/ Cardinality(imports) # 1
            THEN /\ last' = PatchResponse(user, patch, sql_req_res, None, "none", 500)
                 /\ UNCHANGED <<pigs, bulk_imports, clock>>
            ELSE \E sql_res \in {"ok", "err"} :
                 LET row == CHOOSE r \in imports : TRUE
                     import == PatchFinished(update_import(patch, row), clock)
                 IN /\ bulk_imports' = UpdateBulkImport(bulk_imports, import, sql_res)
                    /\ last' = PatchResponse(user, patch, "ok", Some(row), sql_res,
                                             IF sql_res = "ok" THEN 200 ELSE 500)
                    /\ UNCHANGED <<pigs, clock>>

-----------------------------------------------------------------------------
(* Requests *)

\* the values a patch may name
PatchNames == {Bob}
PatchPigIds == {1}

\* BulkPatch::new(id) and its builders pending(), accepted(), rejected()
BulkPatchNew(id) == [id |-> id, pending |-> None, accepted |-> None, rejected |-> None]
WithAction(list, action) == IF IsSome(list) THEN Some(Append(Unwrap(list), action)) ELSE Some(<<action>>)
WithPending(patch, action) == [patch EXCEPT !.pending = WithAction(@, action)]
WithAccepted(patch, action) == [patch EXCEPT !.accepted = WithAction(@, action)]
WithRejected(patch, action) == [patch EXCEPT !.rejected = WithAction(@, action)]

\* the patch the client sends when a pending name is accepted as pig id
AcceptPatch(id, name, pig) == WithAccepted(WithPending(BulkPatchNew(id), REMOVE(name)), ADD(pig))
\* the patch the client sends when a pending name is rejected
RejectPatch(id, name) == WithRejected(WithPending(BulkPatchNew(id), REMOVE(name)), ADD(name))

\* a patch that puts a name back on pending
ReopenPatch(id, name) == WithPending(BulkPatchNew(id), ADD(name))

\* the patch bodies a request may carry: the two the client sends, and one
\* that adds to pending
PatchesFor(id) ==
    {AcceptPatch(id, n, g) : n \in PatchNames, g \in PatchPigIds}
    \cup {RejectPatch(id, n) : n \in PatchNames}
    \cup {ReopenPatch(id, n) : n \in PatchNames}

\* addressed to a row of the table, or to no row
Patches ==
    UNION {PatchesFor(r.id) : r \in bulk_imports}
    \cup {AcceptPatch(UnknownImportId, n, g) : n \in PatchNames, g \in PatchPigIds}

\* no bucket of the addressed row grows beyond MaxLen
WithinMaxLen(patch) ==
    \A row \in {r \in bulk_imports : r.id = patch.id} :
        LET new == update_import(patch, row)
        IN /\ Len(new.pending) <= Max(MaxLen, Len(row.pending))
           /\ Len(new.accepted) <= Max(MaxLen, Len(row.accepted))
           /\ Len(new.rejected) <= Max(MaxLen, Len(row.rejected))

CreateRequest(Raw) ==
    \E user \in Users, names \in Batches(Raw, MaxBatch) :
        /\ Cardinality(bulk_imports) < MaxImports
        /\ api_bulk_create(user, names)
        /\ UNCHANGED <<client, net, db_connection, handler>>

PatchRequest ==
    \E user \in Users, patch \in Patches :
        /\ WithinMaxLen(patch)
        /\ api_bulk_patch(user, patch)
        /\ UNCHANGED <<client, net, db_connection, handler>>

Tick ==
    /\ clock < MaxClock
    /\ clock' = clock + 1
    /\ UNCHANGED <<pigs, bulk_imports, last, client, net, db_connection, handler>>

\* the threads of the server that handle requests
MaxThreads == 2
Threads == 1..MaxThreads

\* a thread that handles no request
HandlerIdle ==
    [pc |-> "idle", kind |-> "none", user |-> "guest", patch |-> NoPatch,
     load |-> "none", loaded |-> None, import |-> None, status |-> 0,
     inputs |-> <<>>, name |-> <<>>, duplicates |-> None,
     st |-> [import_name |-> None, pending |-> <<>>, accepted |-> <<>>,
             rejected |-> <<>>, table |-> {}, log |-> <<>>]]
HandlersIdle == [t \in Threads |-> HandlerIdle]

\* BulkPageDirtyAction
DirtyNone == [kind |-> "None", selection |-> None]
SelectImport(selection) == [kind |-> "SelectImport", selection |-> selection]
SelectPig(selection) == [kind |-> "SelectPig", selection |-> selection]

\* the endpoint handles of the bulk page
Kinds == {"create", "patch", "fetch", "fetch_url_selection", "create_pig"}

\* the endpoint handle of the layout
AuthKind == "is_authenticated"

\* the operator of the client
ClientUser == "editor"

\* BulkPage::default(), BulkPageRender::default() and the fields of
\* ClientState the handles write; receiver[k] is the receiver of handle k:
\* None, or the index in net of the request it waits for
ClientDefault ==
    [authorized |-> Some(get_user_roles(ClientUser)),
     display_error |-> <<>>,
     selected_import |-> None,
     selected_pig |-> None,
     updated_name |-> <<>>,
     dirty |-> FALSE,
     all_imports |-> None,
     dirty_modal |-> DirtyNone,
     not_found_modal |-> FALSE,
     receiver |-> [k \in Kinds \cup {AuthKind} |-> None]]

NoRequest ==
    [kind |-> "none", user |-> "guest", names |-> <<>>, patch |-> NoPatch,
     query |-> NoQuery, log |-> <<>>, load |-> "none", loaded |-> None, save |-> "none",
     status |-> 0, body |-> None]

Init ==
    /\ pigs \in SeedStores
    /\ bulk_imports = {}
    /\ clock = 0
    /\ last = NoRequest
    /\ client = ClientDefault
    /\ net = <<>>
    /\ db_connection = None
    /\ handler = HandlersIdle

\* the first request is a create, over all of RawNames, against each of
\* SeedStores
FirstCreateRequest == last = NoRequest /\ CreateRequest(RawNames)

CreateNext == Tick \/ FirstCreateRequest
CreateSpec == Init /\ [][CreateNext]_vars

SystemInit ==
    /\ pigs = {}
    /\ bulk_imports = {}
    /\ clock = 0
    /\ last = NoRequest
    /\ client = ClientDefault
    /\ net = <<>>
    /\ db_connection = None
    /\ handler = HandlersIdle

\* create and patch requests from the empty tables, all at one reading of
\* the clock
Next == CreateRequest({Bob}) \/ PatchRequest
Spec == SystemInit /\ [][Next]_vars

-----------------------------------------------------------------------------
(* One patch request against a stored BulkImport *)

Al == <<"A", "l">>

\* the values the buckets of a stored import and the actions of a patch hold
EngineNames == {Bob, Al}
EnginePigIds == {1, 2}

\* the stored imports a patch request may find: every filling of the three
\* buckets with MaxSeedLen entries at most; create and patch both leave
\* finished set when pending is empty
SeedImports ==
    {[id |-> 1, name |-> Bob, creator |-> "editor", started |-> 0, finished |-> f,
      pending |-> p, accepted |-> a, rejected |-> r] :
        f \in {None, Some(0)},
        p \in Batches(EngineNames, MaxSeedLen),
        a \in Batches(EnginePigIds, MaxSeedLen),
        r \in Batches(EngineNames, MaxSeedLen)}

SeedImport(row) ==
    /\ Len(row.pending) + Len(row.accepted) + Len(row.rejected) <= MaxSeedLen
    /\ row.pending = <<>> => IsSome(row.finished)

\* PatchAction<T>: every action over the values V
ActionsOver(V) ==
    {ADD(v) : v \in V} \cup {REMOVE(v) : v \in V}
    \cup {UPDATE(x[1], x[2]) : x \in {y \in V \X V : y[1] # y[2]}}

\* the patch bodies of the request: the two the client sends, and every patch
\* of one action
EnginePatchesFor(id) ==
    {AcceptPatch(id, n, g) : n \in EngineNames, g \in EnginePigIds}
    \cup {RejectPatch(id, n) : n \in EngineNames}
    \cup {WithPending(BulkPatchNew(id), x) : x \in ActionsOver(EngineNames)}
    \cup {WithAccepted(BulkPatchNew(id), x) : x \in ActionsOver(EnginePigIds)}
    \cup {WithRejected(BulkPatchNew(id), x) : x \in ActionsOver(EngineNames)}

EnginePatches ==
    UNION {EnginePatchesFor(r.id) : r \in bulk_imports}
    \cup {RejectPatch(UnknownImportId, n) : n \in EngineNames}

\* the first request is a patch
FirstPatchRequest ==
    /\ last = NoRequest
    /\ \E user \in Users, patch \in EnginePatches : api_bulk_patch(user, patch)
    /\ UNCHANGED <<client, net, db_connection, handler>>

PatchInit ==
    /\ pigs = {}
    /\ bulk_imports \in {{row} : row \in {x \in SeedImports : SeedImport(x)}}
    /\ clock = 0
    /\ last = NoRequest
    /\ client = ClientDefault
    /\ net = <<>>
    /\ db_connection = None
    /\ handler = HandlersIdle

PatchNext == Tick \/ FirstPatchRequest
PatchSpec == PatchInit /\ [][PatchNext]_vars

-----------------------------------------------------------------------------
(* The endpoint handles of the client: client/src/data/api.rs *)

\* Status<T>; a Received status carries the value, an Errored one the code of
\* the response (0: no response)
StatusPending == [status |-> "Pending", value |-> None, code |-> 0]
Received(t) == [status |-> "Received", value |-> Some(t), code |-> 0]
Errored(code) == [status |-> "Errored", value |-> None, code |-> code]

\* a world is the client together with the requests it issued
World(c, n) == [c |-> c, n |-> n]

\* a request of net: sent, then answered (the result is in the channel of its
\* receiver), then delivered (a poll took the result); dropped when the result
\* was sent to, or lay in, a receiver the handle no longer holds
NewRequest(kind, input) ==
    [kind |-> kind, input |-> input, phase |-> "sent", result |-> StatusPending]

\* request() that keeps the receiver of the request in flight
request_KeepsFirst(w, kind, input) ==
    World(IF IsSome(w.c.receiver[kind])
          THEN w.c
          ELSE [w.c EXCEPT !.receiver[kind] = Some(Len(w.n) + 1)],
          Append(w.n, NewRequest(kind, input)))

\* request(): the receiver of the new request replaces the one the handle
\* held, and a result that lay in the old one is dropped with it
request(w, kind, input) ==
    LET old == w.c.receiver[kind]
        n1 == IF IsSome(old) /\ w.n[Unwrap(old)].phase = "answered"
              THEN [w.n EXCEPT ![Unwrap(old)].phase = "dropped"]
              ELSE w.n
    IN World([w.c EXCEPT !.receiver[kind] = Some(Len(w.n) + 1)],
             Append(n1, NewRequest(kind, input)))

\* the handle of its kind holds the receiver of request i
Tracked(c, n, i) == c.receiver[n[i].kind] = Some(i)

\* check_response_status that gives up on a request without a result
check_response_status_TimesOut(w, kind) ==
    LET maybe == w.c.receiver[kind]
    IN IF ~IsSome(maybe) THEN StatusPending
       ELSE IF w.n[Unwrap(maybe)].phase = "answered"
       THEN w.n[Unwrap(maybe)].result
       ELSE Errored(0)

check_response_status(w, kind) ==
    LET maybe == w.c.receiver[kind]
    IN IF IsSome(maybe) /\ w.n[Unwrap(maybe)].phase = "answered"
       THEN w.n[Unwrap(maybe)].result
       ELSE StatusPending

discard(c, kind) == [c EXCEPT !.receiver[kind] = None]

\* resolve() that looks at the result and leaves it in the receiver
resolve_Peeks(w, kind) == w

\* the world after resolve(): a result is taken out of the receiver, and the
\* receiver is dropped
resolve(w, kind) ==
    IF check_response_status(w, kind).status = "Pending"
    THEN w
    ELSE World(discard(w.c, kind),
               [w.n EXCEPT ![Unwrap(w.c.receiver[kind])].phase = "delivered"])

\* what received() returns
ReceivedValue(w, kind) ==
    LET st == check_response_status(w, kind)
    IN IF st.status = "Received" THEN st.value ELSE None

\* received() that takes a 403 for the loss of the session as well
received_ForbiddenToo(w, kind) ==
    LET st == check_response_status(w, kind)
        w1 == resolve(w, kind)
    IN IF st.status = "Errored"
       THEN IF st.code \in {401, 403}
            THEN [w1 EXCEPT !.c.authorized = None]
            ELSE [w1 EXCEPT !.c.display_error = Append(@, st.code)]
       ELSE w1

\* the world after received()
received(w, kind) ==
    LET st == check_response_status(w, kind)
        w1 == resolve(w, kind)
    IN IF st.status = "Errored"
       THEN IF st.code = 401
            THEN [w1 EXCEPT !.c.authorized = None]
            ELSE [w1 EXCEPT !.c.display_error = Append(@, st.code)]
       ELSE w1

-----------------------------------------------------------------------------
(* The layout of the client: client/src/pages/layout.rs *)

\* LayoutRender::process_promises that keeps the queued errors
layout_process_promises_KeepsErrors(w) ==
    LET st == check_response_status(w, AuthKind)
        w1 == resolve(w, AuthKind)
    IN IF st.status = "Received"
       THEN [w1 EXCEPT !.c.authorized = Unwrap(st.value)]
       ELSE IF st.status = "Errored"
       THEN [w1 EXCEPT !.c.display_error = Append(@, st.code)]
       ELSE w1

\* LayoutRender::process_promises: the answer to the session check
layout_process_promises(w) ==
    LET st == check_response_status(w, AuthKind)
        w1 == resolve(w, AuthKind)
    IN IF st.status = "Received"
       THEN LET authorized == Unwrap(st.value)
                w2 == IF ~IsSome(authorized) THEN [w1 EXCEPT !.c.display_error = <<>>] ELSE w1
            IN [w2 EXCEPT !.c.authorized = authorized]
       ELSE IF st.status = "Errored"
       THEN [w1 EXCEPT !.c.display_error = Append(@, st.code)]
       ELSE w1

\* LayoutRender::show_modals: the Login modal is shown
LoginShown == ~IsSome(client.authorized)

-----------------------------------------------------------------------------
(* The bulk page of the client: client/src/pages/bulkpage.rs *)

\* SelectedImportedPig
PendingPig(name) == [kind |-> "Pending", name |-> name]
RejectedPig(name) == [kind |-> "Rejected", name |-> name]

\* a String that holds an identifier: what Uuid::to_string gives for uuid, or
\* a text that Uuid::from_str rejects
UuidString(uuid) == [valid |-> TRUE, uuid |-> uuid]
Malformed(uuid) == [valid |-> FALSE, uuid |-> uuid]

DEFAULT_API_RESPONSE_LIMIT == 100

\* BulkQuery::default() and its builders
BulkQueryDefault ==
    [id |-> None, creator |-> None, limit |-> Some(DEFAULT_API_RESPONSE_LIMIT), offset |-> Some(0)]
with_id(query, id) == [query EXCEPT !.id = Some(<<UuidString(id)>>)]

query_imports(w) == request([w EXCEPT !.c.all_imports = None], "fetch", BulkQueryDefault)

do_dirty_action(w) ==
    LET m == w.c.dirty_modal
        w1 == IF m.kind = "SelectImport"
              THEN [w EXCEPT !.c.selected_import = m.selection,
                             !.c.selected_pig = None,
                             !.c.updated_name = <<>>]
              ELSE IF m.kind = "SelectPig"
              THEN [w EXCEPT !.c.updated_name =
                                 IF IsSome(m.selection) /\ Unwrap(m.selection).kind = "Pending"
                                 THEN Unwrap(m.selection).name
                                 ELSE <<>>,
                             !.c.selected_pig = m.selection]
              ELSE w
    IN [w1 EXCEPT !.c.dirty_modal = DirtyNone, !.c.dirty = FALSE]

\* warn_if_dirty that performs the action at once, dirty or not
warn_if_dirty_ActsAtOnce(w, action) ==
    do_dirty_action([w EXCEPT !.c.dirty_modal = action])

warn_if_dirty(w, action) ==
    LET w1 == [w EXCEPT !.c.dirty_modal = action]
    IN IF ~w.c.dirty THEN do_dirty_action(w1) ELSE w1

\* imports[pos] = sel.clone() at the first position that holds sel's id
UpdateEntry(all_imports, sel) ==
    IF ~IsSome(all_imports)
    THEN all_imports
    ELSE LET imports == Unwrap(all_imports)
             at == {i \in 1..Len(imports) : imports[i].id = sel.id}
         IN IF at = {}
            THEN all_imports
            ELSE Some([imports EXCEPT ![CHOOSE i \in at : \A j \in at : i <= j] = sel])

Reverse(vec) == [i \in 1..Len(vec) |-> vec[Len(vec) + 1 - i]]

\* process_promises, "import was created"
OnCreated(w, import) ==
    query_imports([w EXCEPT !.c.dirty = FALSE, !.c.selected_import = Some(import)])

\* process_promises, "did the submitted changes go through?"
OnPatched(w, patch) ==
    LET w1 == IF IsSome(w.c.selected_import)
              THEN LET sel == update_import(patch, Unwrap(w.c.selected_import))
                       w2 == [w EXCEPT !.c.selected_import = Some(sel)]
                       w3 == IF Len(sel.pending) = 0
                             THEN request(w2, "fetch_url_selection", with_id(BulkQueryDefault, sel.id))
                             ELSE w2
                   IN [w3 EXCEPT !.c.all_imports = UpdateEntry(@, sel)]
              ELSE query_imports(w)
    IN [w1 EXCEPT !.c.dirty = FALSE, !.c.selected_pig = None, !.c.updated_name = <<>>]

\* process_promises, "updates the left sidebar data"
OnFetched(w, imports) == [w EXCEPT !.c.all_imports = Some(Reverse(imports))]

\* process_promises, the result of fetch_url_selection
OnSelectionFetched(w, imports) ==
    IF imports # <<>>
    THEN LET sel == imports[Len(imports)]
         IN warn_if_dirty([w EXCEPT !.c.all_imports = UpdateEntry(@, sel)],
                          SelectImport(Some(sel)))
    ELSE [w EXCEPT !.c.not_found_modal = TRUE]

\* process_promises, "When a pig is created, submit a patch request"
OnPigCreated(w, pig) ==
    IF /\ IsSome(w.c.selected_import)
       /\ IsSome(w.c.selected_pig)
       /\ Unwrap(w.c.selected_pig).kind = "Pending"
    THEN request(w, "patch", AcceptPatch(Unwrap(w.c.selected_import).id,
                                         Unwrap(w.c.selected_pig).name, pig.id))
    ELSE w

\* one "if let Some(x) = handle.received(state) { ... }" of process_promises
Poll(w, kind) ==
    LET got == ReceivedValue(w, kind)
        w1 == received(w, kind)
    IN IF ~IsSome(got) THEN w1
       ELSE IF kind = "create" THEN OnCreated(w1, Unwrap(got))
       ELSE IF kind = "patch" THEN OnPatched(w1, Unwrap(got))
       ELSE IF kind = "fetch" THEN OnFetched(w1, Unwrap(got))
       ELSE IF kind = "fetch_url_selection" THEN OnSelectionFetched(w1, Unwrap(got))
       ELSE OnPigCreated(w1, Unwrap(got))

process_promises(w) ==
    Poll(Poll(Poll(Poll(Poll(w, "create"), "patch"), "fetch"), "fetch_url_selection"),
         "create_pig")

-----------------------------------------------------------------------------
(* The client and the server *)

MaxRequests == 2   \* requests the client may issue

\* the names the operator pastes into the create screen
ClientBatch == <<Bob>>

\* parse_uuids: Ok(uuids), or Err(BadRequest) if a string is no identifier
parse_uuids(strings) ==
    IF \A i \in 1..Len(strings) : strings[i].valid
    THEN [ok |-> TRUE, value |-> [i \in 1..Len(strings) |-> strings[i].uuid], status |-> 200]
    ELSE [ok |-> FALSE, value |-> <<>>, status |-> 400]

\* Result::ok
ok(result) == IF result.ok THEN Some(result.value) ELSE None

\* Option::and_then(|ids| parse_uuids(ids).ok())
ParsedFilter(filter) == IF IsSome(filter) THEN ok(parse_uuids(Unwrap(filter))) ELSE None

\* BulkQuery::to_db_select and its load: the result lists the query can
\* return; no ORDER BY, so the matching rows in any order, from the offset on
\* and cut at the limit
to_db_select(query, table) ==
    LET query_ids == ParsedFilter(query.id)
        query_creators == ParsedFilter(query.creator)
        rows == {r \in table :
                    /\ IsSome(query_ids) => Contains(Unwrap(query_ids), r.id)
                    /\ IsSome(query_creators) => Contains(Unwrap(query_creators), r.creator)}
        limit == IF IsSome(query.limit) THEN Unwrap(query.limit) ELSE DEFAULT_API_RESPONSE_LIMIT
        offset == IF IsSome(query.offset) THEN Unwrap(query.offset) ELSE 0
    IN {SubSeq(o, offset + 1, Min(Len(o), offset + limit)) : o \in Orderings(rows)}

\* what api_bulk_fetch answered: the query as the caller sent it
FetchResponse(user, query, load, status, body) ==
    [kind |-> "fetch", user |-> user, names |-> <<>>, patch |-> NoPatch,
     query |-> query, log |-> <<>>, load |-> load, loaded |-> None, save |-> "none",
     status |-> status, body |-> body]

\* api_bulk_fetch that leaves the creator filter as the caller sent it
api_bulk_fetch_AnyCreator(user, query) ==
    LET bulk_admin == user_has_role(user, "BulkAdmin")
    IN IF ~(bulk_admin \/ user_has_role(user, "BulkEditor"))
       THEN /\ last' = FetchResponse(user, query, "none", 403, None)
            /\ UNCHANGED <<pigs, bulk_imports, clock>>
       ELSE \E sql_res \in {"ok", "err"} :
            \E imports \in to_db_select(query, bulk_imports) :
                /\ last' = IF sql_res = "ok"
                           THEN FetchResponse(user, query, "ok", 200, Some(imports))
                           ELSE FetchResponse(user, query, "err", 500, None)
                /\ UNCHANGED <<pigs, bulk_imports, clock>>

api_bulk_fetch(user, query) ==
    LET bulk_admin == user_has_role(user, "BulkAdmin")
        own == IF ~bulk_admin
               THEN [query EXCEPT !.creator = Some(<<UuidString(user)>>)]
               ELSE query
    IN IF ~(bulk_admin \/ user_has_role(user, "BulkEditor"))
       THEN /\ last' = FetchResponse(user, query, "none", 403, None)
            /\ UNCHANGED <<pigs, bulk_imports, clock>>
       ELSE \E sql_res \in {"ok", "err"} :
            \E imports \in to_db_select(own, bulk_imports) :
                /\ last' = IF sql_res = "ok"
                           THEN FetchResponse(user, query, "ok", 200, Some(imports))
                           ELSE FetchResponse(user, query, "err", 500, None)
                /\ UNCHANGED <<pigs, bulk_imports, clock>>

\* the id of the pig the pig API creates for request i
CreatedPigId(i) == 10 + i

\* api_pig_create: answers the new pig; it is not stored in table pigs
api_pig_create(name, id) ==
    /\ last' = [kind |-> "pig_create", user |-> ClientUser, names |-> <<name>>,
                patch |-> NoPatch, query |-> NoQuery, log |-> <<>>, load |-> "none",
                loaded |-> None, save |-> "none", status |-> 201,
                body |-> Some([id |-> id, name |-> name])]
    /\ UNCHANGED <<pigs, bulk_imports, clock>>

\* BulkPatchHandler's on_response that answers the patch whatever the status
BulkPatchResponse_AlwaysOk(res, input) == Received(input)

\* the on_response of BulkPatchHandler: the patch that was sent comes back
BulkPatchResponse(res, input) ==
    IF res.status >= 400 THEN Errored(res.status) ELSE Received(input)

\* the on_response of the handlers that parse the body
JsonResponse(res) ==
    IF res.status >= 400 THEN Errored(res.status) ELSE Received(Unwrap(res.body))

\* tx.send(...).unwrap_or_default(): the result reaches the receiver if the
\* handle still holds it
Answer(i, result) ==
    net' = [net EXCEPT ![i].phase = IF Tracked(client, net, i) THEN "answered" ELSE "dropped",
                       ![i].result = result]

\* what a handler that is not of the bulk API answered
OtherResponse(kind, user, status, body) ==
    [kind |-> kind, user |-> user, names |-> <<>>, patch |-> NoPatch, query |-> NoQuery,
     log |-> <<>>, load |-> "none", loaded |-> None, save |-> "none",
     status |-> status, body |-> body]

\* is_authenticated of the server: the roles of the user of the session
is_authenticated(user) ==
    /\ last' = OtherResponse(AuthKind, user, 200, Some(get_user_roles(user)))
    /\ UNCHANGED <<pigs, bulk_imports, clock>>

\* the on_response of AuthCheckHandler: a 401 is the answer "not signed in"
AuthCheckResponse(res) ==
    IF res.status < 300 THEN Received(res.body)
    ELSE IF res.status = 401 THEN Received(None)
    ELSE Errored(res.status)

\* the server handles request i in the session of user, and its response
\* comes back
ServeAs(i, user) ==
    /\ net[i].phase = "sent"
    /\ IF net[i].kind = "create"
       THEN api_bulk_create(user, net[i].input) /\ Answer(i, JsonResponse(last'))
       ELSE IF net[i].kind = "patch"
       THEN api_bulk_patch(user, net[i].input)
            /\ Answer(i, BulkPatchResponse(last', net[i].input))
       ELSE IF net[i].kind = "create_pig"
       THEN api_pig_create(net[i].input, CreatedPigId(i)) /\ Answer(i, JsonResponse(last'))
       ELSE IF net[i].kind = AuthKind
       THEN is_authenticated(user) /\ Answer(i, AuthCheckResponse(last'))
       ELSE api_bulk_fetch(user, net[i].input) /\ Answer(i, JsonResponse(last'))
    /\ UNCHANGED <<client, db_connection, handler>>

Serve(i) == ServeAs(i, ClientUser)

\* ehttp::fetch fails: the request never reaches the server
NoResponse(i) ==
    /\ net[i].phase = "sent"
    /\ Answer(i, Errored(0))
    /\ UNCHANGED <<pigs, bulk_imports, clock, last, client, db_connection, handler>>

\* a frame in which a handle has a result to take
Frame ==
    /\ \E kind \in Kinds : check_response_status(World(client, net), kind).status # "Pending"
    /\ LET w == process_promises(World(client, net))
       IN /\ Len(w.n) <= MaxRequests
          /\ client' = w.c
          /\ net' = w.n
    /\ UNCHANGED <<pigs, bulk_imports, clock, last, db_connection, handler>>

\* the dirty modal is shown
ModalShown == client.dirty_modal.kind # "None"

\* what a click of the operator does to the client
Click(w) ==
    /\ ~LoginShown
    /\ client' = w.c
    /\ net' = w.n
    /\ UNCHANGED <<pigs, bulk_imports, clock, last, db_connection, handler>>

\* "+ Add All Pigs" on the create screen
ClickAddAll ==
    /\ ~ModalShown
    /\ ~IsSome(client.selected_import)
    /\ Len(net) < MaxRequests
    /\ Click(request(World(client, net), "create", ClientBatch))

\* a row of the sidebar
ClickImport ==
    /\ ~ModalShown
    /\ IsSome(client.all_imports)
    /\ \E j \in 1..Len(Unwrap(client.all_imports)) :
        LET import == Unwrap(client.all_imports)[j]
            selected == IsSome(client.selected_import)
                        /\ Unwrap(client.selected_import).id = import.id
        IN Click(warn_if_dirty(World(client, net),
                               SelectImport(IF selected THEN None ELSE Some(import))))

\* the rows selectable_mixed_list shows for the selected import
MixedList ==
    IF IsSome(client.selected_import)
    THEN LET import == Unwrap(client.selected_import)
         IN {PendingPig(import.pending[j]) : j \in 1..Len(import.pending)}
            \cup {RejectedPig(import.rejected[j]) : j \in 1..Len(import.rejected)}
    ELSE {}

\* a row of the list of names
ClickName ==
    /\ ~ModalShown
    /\ \E row \in MixedList :
        Click(warn_if_dirty(World(client, net),
                            SelectPig(IF client.selected_pig = Some(row) THEN None ELSE Some(row))))

\* the edit screen is shown and the selected name is pending
selected_is_pending ==
    /\ IsSome(client.selected_import)
    /\ ~IsSome(Unwrap(client.selected_import).finished)
    /\ IsSome(client.selected_pig)
    /\ Unwrap(client.selected_pig).kind = "Pending"

\* "+ Accept"
ClickAccept ==
    /\ ~ModalShown
    /\ selected_is_pending
    /\ client.updated_name # <<>>
    /\ Len(net) < MaxRequests
    /\ Click(request(World(client, net), "create_pig", client.updated_name))

\* "Reject", while fewer than limit requests were issued
Reject(limit) ==
    /\ ~ModalShown
    /\ selected_is_pending
    /\ Len(net) < limit
    /\ Click(request(World(client, net), "patch",
                     RejectPatch(Unwrap(client.selected_import).id,
                                 Unwrap(client.selected_pig).name)))

ClickReject == Reject(MaxRequests)

\* an import of the operator with two names left pending
OpenedImport ==
    [id |-> 1, name |-> Bob, creator |-> ClientUser, started |-> 0, finished |-> None,
     pending |-> <<Bob, Al>>, accepted |-> <<>>, rejected |-> <<>>]

\* the page is open on OpenedImport: the sidebar is loaded, the import is
\* selected and no request is in flight
ClientInit ==
    /\ pigs = {}
    /\ bulk_imports = {OpenedImport}
    /\ clock = 0
    /\ last = NoRequest
    /\ client = [ClientDefault EXCEPT !.selected_import = Some(OpenedImport),
                                      !.all_imports = Some(<<OpenedImport>>)]
    /\ net = <<>>
    /\ db_connection = None
    /\ handler = HandlersIdle

\* the dirty flag is never set here: the edit box is left as the selection
\* fills it, so the dirty modal is never shown
ClientNext ==
    \/ ClickAddAll
    \/ ClickImport
    \/ ClickName
    \/ ClickAccept
    \/ ClickReject
    \/ Frame
    \/ \E i \in 1..Len(net) : Serve(i)
    \/ \E i \in 1..Len(net) : NoResponse(i)

ClientSpec == ClientInit /\ [][ClientNext]_vars

-----------------------------------------------------------------------------
(* The client, the session of the operator and the server *)

\* the users the session of the operator may be of: with the role the bulk
\* page needs, and without
SessionUsers == {"editor", "guest"}

\* the guard AuthenticatedUser lets request i pass
SessionServe == \E i \in 1..Len(net) : \E user \in SessionUsers : ServeAs(i, user)

\* the guard AuthenticatedUser fails: invalidate_session answers 401 and no
\* handler runs
Unauthorized(i) ==
    /\ net[i].phase = "sent"
    /\ last' = OtherResponse(net[i].kind, "guest", 401, None)
    /\ Answer(i, IF net[i].kind = AuthKind
                 THEN AuthCheckResponse(last')
                 ELSE IF net[i].kind = "patch"
                 THEN BulkPatchResponse(last', net[i].input)
                 ELSE JsonResponse(last'))
    /\ UNCHANGED <<pigs, bulk_imports, clock, client, db_connection, handler>>

\* the session check, and MaxRequests requests of the page
MaxSessionRequests == MaxRequests + 1

SessionClickReject == Reject(MaxSessionRequests)

\* a frame in which a handle has a result to take: the layout takes its
\* results before the page does. ui() of the page returns before
\* process_promises if state.has_role grants neither BulkEditor nor
\* BulkAdmin; what has_role answers is left open, so the page takes its
\* results (page_shown) or not
SessionFrame ==
    /\ \E kind \in Kinds \cup {AuthKind} :
          check_response_status(World(client, net), kind).status # "Pending"
    /\ \E page_shown \in BOOLEAN :
          LET w1 == layout_process_promises(World(client, net))
              w == IF page_shown THEN process_promises(w1) ELSE w1
          IN /\ Len(w.n) <= MaxSessionRequests
             /\ client' = w.c
             /\ net' = w.n
    /\ UNCHANGED <<pigs, bulk_imports, clock, last, db_connection, handler>>

\* the page was opened on OpenedImport with its first name selected: open()
\* of the layout has sent the session check, and authorized is what the
\* last visit left
SessionInit ==
    /\ pigs = {}
    /\ bulk_imports = {OpenedImport}
    /\ clock = 0
    /\ last = NoRequest
    /\ \E authorized \in {None, Some(get_user_roles(ClientUser))} :
          client = [ClientDefault EXCEPT !.authorized = authorized,
                                         !.selected_import = Some(OpenedImport),
                                         !.all_imports = Some(<<OpenedImport>>),
                                         !.selected_pig = Some(PendingPig(Bob)),
                                         !.updated_name = Bob,
                                         !.receiver[AuthKind] = Some(1)]
    /\ net = <<NewRequest(AuthKind, FALSE)>>
    /\ db_connection = None
    /\ handler = HandlersIdle

SessionNext ==
    \/ SessionClickReject
    \/ SessionFrame
    \/ SessionServe
    \/ \E i \in 1..Len(net) : Unauthorized(i)
    \/ \E i \in 1..Len(net) : NoResponse(i)

SessionSpec == SessionInit /\ [][SessionNext]_vars

-----------------------------------------------------------------------------
(* The client with unsaved changes in the edit box *)

\* the requests the page may issue here
MaxDirtyRequests == MaxRequests - 1

\* a second import in the sidebar
OtherImport ==
    [id |-> 2, name |-> Al, creator |-> ClientUser, started |-> 0, finished |-> None,
     pending |-> <<Al>>, accepted |-> <<>>, rejected |-> <<>>]

\* what the operator may type into the edit box
EditTexts == {BobS, Al}

\* the edit box is changed
EditName ==
    /\ ~ModalShown
    /\ selected_is_pending
    /\ \E text \in EditTexts \ {client.updated_name} :
          Click([World(client, net) EXCEPT !.c.updated_name = text, !.c.dirty = TRUE])

\* "Yes" of the dirty modal
ModalConfirm ==
    /\ ModalShown
    /\ Click(do_dirty_action(World(client, net)))

\* "Cancel" of the dirty modal, or a click beside it
ModalCancel ==
    /\ ModalShown
    /\ Click([World(client, net) EXCEPT !.c.dirty_modal = DirtyNone])

DirtyClickReject == Reject(MaxDirtyRequests)

\* the page is open on OpenedImport, with the sidebar loaded
DirtyInit ==
    /\ pigs = {}
    /\ bulk_imports = {OpenedImport, OtherImport}
    /\ clock = 0
    /\ last = NoRequest
    /\ client = [ClientDefault EXCEPT !.selected_import = Some(OpenedImport),
                                      !.all_imports = Some(<<OpenedImport, OtherImport>>)]
    /\ net = <<>>
    /\ db_connection = None
    /\ handler = HandlersIdle

DirtyNext ==
    \/ ClickImport
    \/ ClickName
    \/ EditName
    \/ ModalConfirm
    \/ ModalCancel
    \/ DirtyClickReject
    \/ Frame
    \/ \E i \in 1..Len(net) : Serve(i)

DirtySpec == DirtyInit /\ [][DirtyNext]_vars

-----------------------------------------------------------------------------
(* One request of any user against the imports of two users *)

\* the callers: two with BulkEditor, one with BulkAdmin only, one with both,
\* one with no role
AccessUsers == {"editor", "other", "admin", "chief", "guest"}

\* the stored imports: each row is of one of the two editors
AccessRow(id, name, creator) ==
    [id |-> id, name |-> name, creator |-> creator, started |-> 0, finished |-> None,
     pending |-> <<name>>, accepted |-> <<>>, rejected |-> <<>>]

AccessTables ==
    {{}} \cup {{AccessRow(1, Bob, c)} : c \in {"editor", "other"}}
         \cup {{AccessRow(1, Bob, c), AccessRow(2, Al, d)} : c, d \in {"editor", "other"}}

\* BulkQuery as the query string of GET /api/bulk/fetch gives it: each field
\* absent or present, the identifiers well-formed or not
AccessIdFilters ==
    {None, Some(<<UuidString(1)>>), Some(<<UuidString(1), UuidString(2)>>),
     Some(<<Malformed(1)>>)}
AccessCreatorFilters ==
    {None, Some(<<UuidString("editor")>>), Some(<<UuidString("other")>>),
     Some(<<Malformed("other")>>)}
AccessQueries ==
    {[id |-> i, creator |-> c, limit |-> l, offset |-> o] :
        i \in AccessIdFilters, c \in AccessCreatorFilters,
        l \in {None, Some(1)}, o \in {None, Some(1)}}

AccessPatches ==
    PatchesFor(1) \cup PatchesFor(2) \cup {RejectPatch(UnknownImportId, Bob)}

AccessCreate ==
    /\ last = NoRequest
    /\ \E user \in AccessUsers, names \in Batches({Bob}, 1) : api_bulk_create(user, names)
    /\ UNCHANGED <<client, net, db_connection, handler>>

AccessPatch ==
    /\ last = NoRequest
    /\ \E user \in AccessUsers, patch \in AccessPatches : api_bulk_patch(user, patch)
    /\ UNCHANGED <<client, net, db_connection, handler>>

AccessFetch ==
    /\ last = NoRequest
    /\ \E user \in AccessUsers, query \in AccessQueries : api_bulk_fetch(user, query)
    /\ UNCHANGED <<client, net, db_connection, handler>>

AccessInit ==
    /\ pigs = {}
    /\ bulk_imports \in AccessTables
    /\ clock = 0
    /\ last = NoRequest
    /\ client = ClientDefault
    /\ net = <<>>
    /\ db_connection = None
    /\ handler = HandlersIdle

AccessNext == AccessCreate \/ AccessPatch \/ AccessFetch
AccessSpec == AccessInit /\ [][AccessNext]_vars

-----------------------------------------------------------------------------
(* The handlers step by step, one request per thread: server/src/bulkapi.rs *)

\* Mutex::lock that does not wait for the guard to be dropped
lock_NoWait(t) == db_connection' = Some(t)

\* db_connection.lock().unwrap(): blocks while another thread holds the guard
lock(t) == db_connection = None /\ db_connection' = Some(t)

\* the MutexGuard is dropped when the handler returns
unlock == db_connection' = None

\* the import the patches address, and the patches
LockedImport ==
    [id |-> 1, name |-> Bob, creator |-> "editor", started |-> 0, finished |-> None,
     pending |-> <<Bob, Al>>, accepted |-> <<>>, rejected |-> <<>>]
LockPatches ==
    {RejectPatch(1, Bob), RejectPatch(1, Al), AcceptPatch(1, Al, 1),
     RejectPatch(UnknownImportId, Bob)}

\* lines 142-148 of api_bulk_patch: the role check, then the lock
PatchLock(t) ==
    /\ handler[t].pc = "idle"
    /\ \E user \in Users, patch \in LockPatches :
          IF ~user_has_role(user, "BulkEditor")
          THEN /\ handler' = [handler EXCEPT ![t] = [@ EXCEPT !.pc = "done", !.kind = "patch",
                                                               !.user = user, !.status = 403]]
               /\ last' = PatchResponse(user, NoPatch, "none", None, "none", 403)
               /\ UNCHANGED db_connection
          ELSE /\ lock(t)
               /\ handler' = [handler EXCEPT ![t] = [@ EXCEPT !.pc = "locked", !.kind = "patch",
                                                               !.user = user, !.patch = patch]]
               /\ UNCHANGED last
    /\ UNCHANGED <<pigs, bulk_imports, clock, client, net>>

\* lines 149-160: the load of the row with the patch's id
PatchLoad(t) ==
    /\ handler[t].pc = "locked"
    /\ handler[t].kind = "patch"
    /\ \E sql_req_res \in {"ok", "err"} :
          LET h == handler[t]
              imports == {r \in bulk_imports : r.id = h.patch.id}
          IN IF sql_req_res = "err" \/ Cardinality(imports) # 1
             THEN /\ handler' = [handler EXCEPT ![t] = [@ EXCEPT !.pc = "done", !.load = sql_req_res,
                                                                  !.status = 500]]
                  /\ last' = PatchResponse(h.user, h.patch, sql_req_res, None, "none", 500)
                  /\ unlock
             ELSE /\ handler' = [handler EXCEPT ![t] =
                                    [@ EXCEPT !.pc = "loaded", !.load = "ok",
                                              !.loaded = Some(CHOOSE r \in imports : TRUE),
                                              !.import = Some(CHOOSE r \in imports : TRUE)]]
                  /\ UNCHANGED <<last, db_connection>>
    /\ UNCHANGED <<pigs, bulk_imports, clock, client, net>>

\* lines 162-169: the patch is applied to the loaded import
PatchApply(t) ==
    /\ handler[t].pc = "loaded"
    /\ handler' = [handler EXCEPT ![t] =
                     [@ EXCEPT !.pc = "applied",
                               !.import = Some(PatchFinished(update_import(handler[t].patch,
                                                                           Unwrap(@)), clock))]]
    /\ UNCHANGED <<pigs, bulk_imports, clock, last, client, net, db_connection>>

\* lines 171-184: the row is written and the handler returns
PatchSave(t) ==
    /\ handler[t].pc = "applied"
    /\ \E sql_res \in {"ok", "err"} :
          LET h == handler[t]
              status == IF sql_res = "ok" THEN 200 ELSE 500
          IN /\ bulk_imports' = UpdateBulkImport(bulk_imports, Unwrap(h.import), sql_res)
             /\ handler' = [handler EXCEPT ![t] = [@ EXCEPT !.pc = "done", !.status = status]]
             /\ last' = PatchResponse(h.user, h.patch, "ok", h.loaded, sql_res, status)
    /\ unlock
    /\ UNCHANGED <<pigs, clock, client, net>>

\* lines 31-36 of api_bulk_create: the role check, then the lock
CreateLock(t) ==
    /\ handler[t].pc = "idle"
    /\ user_has_role(ClientUser, "BulkEditor")
    /\ lock(t)
    /\ handler' = [handler EXCEPT ![t] = [@ EXCEPT !.pc = "locked", !.kind = "create",
                                                    !.user = ClientUser]]
    /\ UNCHANGED <<pigs, bulk_imports, clock, last, client, net>>

\* lines 37-131: the names are classified and the import is inserted, all
\* under the guard, and the handler returns
CreateRun(t) ==
    /\ handler[t].pc = "locked"
    /\ handler[t].kind = "create"
    /\ api_bulk_create(handler[t].user, <<Bob>>)
    /\ handler' = [handler EXCEPT ![t] = [@ EXCEPT !.pc = "done", !.status = last'.status]]
    /\ unlock
    /\ UNCHANGED <<client, net>>

LockInit ==
    /\ pigs = {}
    /\ bulk_imports = {LockedImport}
    /\ clock = 0
    /\ last = NoRequest
    /\ client = ClientDefault
    /\ net = <<>>
    /\ db_connection = None
    /\ handler = HandlersIdle

LockNext ==
    \E t \in Threads :
        \/ PatchLock(t)
        \/ PatchLoad(t)
        \/ PatchApply(t)
        \/ PatchSave(t)
        \/ CreateLock(t)
        \/ CreateRun(t)

LockSpec == LockInit /\ [][LockNext]_vars

-----------------------------------------------------------------------------
(* One patch request with lists of several actions *)

\* the actions one list of the patch holds at most
MaxActions == 2

\* the lists of 1..n actions over the values V
ActionLists(V, n) == UNION {[1..k -> ActionsOver(V)] : k \in 1..n}

\* the stored import: pending of up to two names, accepted and rejected of
\* up to one entry
OrderImports ==
    {[id |-> 1, name |-> Bob, creator |-> "editor", started |-> 0,
      finished |-> IF p = <<>> THEN Some(0) ELSE None,
      pending |-> p, accepted |-> a, rejected |-> r] :
        p \in Batches(EngineNames, 2), a \in Batches({1}, 1), r \in Batches({Bob}, 1)}

\* the patch bodies: a pending list of up to MaxActions actions, or none,
\* with or without one action for accepted and for rejected
OrderPatches ==
    {[id |-> 1, pending |-> p, accepted |-> a, rejected |-> r] :
        p \in {None} \cup {Some(l) : l \in ActionLists(EngineNames, MaxActions)},
        a \in {None, Some(<<ADD(2)>>)},
        r \in {None, Some(<<ADD(Al)>>), Some(<<REMOVE(Bob)>>)}}

OrderPatchRequest ==
    /\ last = NoRequest
    /\ \E patch \in OrderPatches : api_bulk_patch("editor", patch)
    /\ UNCHANGED <<client, net, db_connection, handler>>

OrderInit ==
    /\ pigs = {}
    /\ bulk_imports \in {{row} : row \in OrderImports}
    /\ clock = 0
    /\ last = NoRequest
    /\ client = ClientDefault
    /\ net = <<>>
    /\ db_connection = None
    /\ handler = HandlersIdle

OrderNext == Tick \/ OrderPatchRequest
OrderSpec == OrderInit /\ [][OrderNext]_vars

-----------------------------------------------------------------------------
(* api_bulk_create step by step, one request per thread *)

\* the batches of the create requests
RaceBatches == {<<Bob>>, <<Al, Bob>>}

\* lines 31-36: the role check, then the lock
CreateStart(t) ==
    /\ handler[t].pc = "idle"
    /\ \E user \in Users, inputs \in RaceBatches :
          IF ~user_has_role(user, "BulkEditor")
          THEN /\ handler' = [handler EXCEPT ![t] = [@ EXCEPT !.pc = "done", !.kind = "create",
                                                               !.user = user, !.status = 403]]
               /\ last' = [NoRequest EXCEPT !.kind = "create", !.user = user, !.status = 403]
               /\ UNCHANGED db_connection
          ELSE /\ lock(t)
               /\ handler' = [handler EXCEPT ![t] = [@ EXCEPT !.pc = "locked", !.kind = "create",
                                                               !.user = user, !.inputs = inputs]]
               /\ UNCHANGED last
    /\ UNCHANGED <<pigs, bulk_imports, clock, client, net>>

\* lines 48-73: the cleanup of the next input and the duplicate query, which
\* reads the table as it is now
CreateSearch(t) ==
    /\ handler[t].pc = "locked"
    /\ handler[t].kind = "create"
    /\ handler[t].inputs # <<>>
    /\ LET h == handler[t]
           input == Head(h.inputs)
           name == Cleanup(input)
           st1 == [h.st EXCEPT !.import_name = IF IsSome(@) THEN @ ELSE Some(name)]
       IN IF AlreadyPending(st1.pending, name)
          THEN handler' = [handler EXCEPT ![t] =
                    [@ EXCEPT !.inputs = Tail(h.inputs),
                              !.st = [st1 EXCEPT !.log = Append(@, Event(input, name, "none", <<>>,
                                                                         "none", "skipped"))]]]
          ELSE \E d \in {None} \cup {Some(r) : r \in DuplicateResults(pigs, name)} :
                  handler' = [handler EXCEPT ![t] =
                      [@ EXCEPT !.pc = "searched", !.name = name, !.duplicates = d, !.st = st1]]
    /\ UNCHANGED <<pigs, bulk_imports, clock, last, client, net, db_connection>>

\* lines 75-101: the name goes to a bucket, after the insert of a new pig if
\* the query found nothing
CreateClassify(t) ==
    /\ handler[t].pc = "searched"
    /\ LET h == handler[t]
           input == Head(h.inputs)
           st1 == [h.st EXCEPT !.table = pigs]
       IN \E st2 \in IF IsSome(h.duplicates)
                     THEN ClassifyFound(st1, input, h.name, Unwrap(h.duplicates), h.user)
                     ELSE {ClassifyQueryFailed(st1, input, h.name)} :
             /\ pigs' = st2.table
             /\ handler' = [handler EXCEPT ![t] =
                    [@ EXCEPT !.pc = "locked", !.inputs = Tail(h.inputs), !.st = st2]]
    /\ UNCHANGED <<bulk_imports, clock, last, client, net, db_connection>>

\* lines 104-131: the import is inserted and the handler returns
CreateFinish(t) ==
    /\ handler[t].pc = "locked"
    /\ handler[t].kind = "create"
    /\ handler[t].inputs = <<>>
    /\ \E sql_res \in {"ok", "err"} :
          LET h == handler[t]
              fin == h.st
              res == [id |-> NewImportId(bulk_imports),
                      name |-> unwrap_or_default(fin.import_name),
                      creator |-> h.user,
                      started |-> clock,
                      finished |-> CreateFinished(fin.pending, clock),
                      pending |-> fin.pending,
                      accepted |-> fin.accepted,
                      rejected |-> fin.rejected]
              status == IF sql_res = "ok" THEN 201 ELSE 500
          IN /\ bulk_imports' = InsertBulkImport(bulk_imports, res, sql_res)
             /\ last' = [NoRequest EXCEPT !.kind = "create", !.user = h.user,
                                          !.log = fin.log, !.save = sql_res, !.status = status,
                                          !.body = IF sql_res = "ok" THEN Some(res) ELSE None]
             /\ handler' = [handler EXCEPT ![t] = [@ EXCEPT !.pc = "done", !.status = status]]
    /\ unlock
    /\ UNCHANGED <<pigs, clock, client, net>>

\* no pig and no import is stored, and every thread is idle
RaceInit ==
    /\ pigs = {}
    /\ bulk_imports = {}
    /\ clock = 0
    /\ last = NoRequest
    /\ client = ClientDefault
    /\ net = <<>>
    /\ db_connection = None
    /\ handler = HandlersIdle

RaceNext ==
    \E t \in Threads :
        \/ CreateStart(t)
        \/ CreateSearch(t)
        \/ CreateClassify(t)
        \/ CreateFinish(t)

RaceSpec == RaceInit /\ [][RaceNext]_vars

-----------------------------------------------------------------------------
(* Properties *)

\* a step that handles a request (Tick is the only step that moves the clock)
RequestStep == clock' = clock

CreateHandled == last.kind = "create" /\ last.status # 403
\* the create handled last saved its BulkImport
Created == last.kind = "create" /\ IsSome(last.body)
CreatedImport == Unwrap(last.body)

Count(vec, e) == Cardinality({i \in 1..Len(vec) : vec[i] = e})
PigName(table, id) == (CHOOSE p \in table : p.id = id).name
\* the entries of accepted that are pigs of the given name
AcceptedAs(table, import, name) ==
    {i \in 1..Len(import.accepted) :
        /\ \E p \in table : p.id = import.accepted[i]
        /\ PigName(table, import.accepted[i]) = name}

\* the normalized names supplied to the create handled last
Supplied == {Cleanup(last.names[i]) : i \in 1..Len(last.names)}
Occurrences(name) == Cardinality({i \in 1..Len(last.names) : Cleanup(last.names[i]) = name})

\* in how many of the three buckets the name is accounted for
Buckets(import, name) ==
    (IF Contains(import.pending, name) THEN 1 ELSE 0)
    + (IF Contains(import.rejected, name) THEN 1 ELSE 0)
    + (IF AcceptedAs(pigs, import, name) # {} THEN 1 ELSE 0)

\* how many entries the three buckets hold for the name
Entries(import, name) ==
    Count(import.pending, name) + Count(import.rejected, name)
    + Cardinality(AcceptedAs(pigs, import, name))

\* the bucket the first occurrence of the name went to
FirstBucket(name) ==
    last.log[CHOOSE k \in 1..Len(last.log) :
                /\ last.log[k].name = name
                /\ \A j \in 1..(k - 1) : last.log[j].name # name].bucket

ZeroMatchesCreated(e) == e.search = "ok" /\ e.duplicates = <<>> /\ e.insert = "ok"
SingleExactMatch(e) ==
    /\ e.search = "ok"
    /\ Len(e.duplicates) = 1
    /\ eq_ignore_ascii_case(e.duplicates[1].name, e.name)
ClassificationFailed(e) == e.search = "err" \/ e.insert = "err"

\* C1, as claimed: every stored BulkImport has finished set if and only if
\* its pending list is empty. Fails: a patch that adds to pending leaves
\* finished set.
C1_FinishedIffPendingEmpty ==
    \A r \in bulk_imports : IsSome(r.finished) <=> r.pending = <<>>

\* C1, amended: every stored BulkImport with an empty pending list has
\* finished set, and the BulkImport a create has just saved has finished set
\* if and only if its pending list is empty.
C1_FinishedWhenPendingEmpty ==
    /\ \A r \in bulk_imports : r.pending = <<>> => IsSome(r.finished)
    /\ Created => /\ CreatedImport \in bulk_imports
                  /\ IsSome(CreatedImport.finished) <=> CreatedImport.pending = <<>>

C1_Witness ==
    /\ last.kind = "patch" /\ last.status = 200
    /\ Unwrap(last.loaded).pending # <<>>
    /\ Unwrap(last.loaded).finished = None
    /\ \E r \in bulk_imports :
          r.id = last.patch.id /\ r.pending = <<>> /\ r.finished = Some(clock)

\* C2, as claimed: right after create, every name supplied is accounted for
\* in exactly one of pending, rejected and (by the id of a pig of that name)
\* accepted. Fails for a name supplied twice.
C2_ExactlyOneBucket ==
    Created => \A n \in Supplied : Buckets(CreatedImport, n) = 1

\* C2, amended: right after create, every normalized name supplied is
\* accounted for in at least one of pending, rejected and accepted, and in
\* exactly one if it was supplied once.
C2_AtLeastOneBucket ==
    Created => \A n \in Supplied :
        /\ Buckets(CreatedImport, n) >= 1
        /\ Occurrences(n) = 1 => Buckets(CreatedImport, n) = 1

C2_Witness ==
    /\ Created
    /\ last.names = <<Bob, LowerBob>>
    /\ \A n \in Supplied : Occurrences(n) = 1 /\ Buckets(CreatedImport, n) = 1
    /\ CreatedImport.pending = <<LowerBob>>
    /\ Len(CreatedImport.accepted) = 1

\* C3, as claimed: a name that occurs more than once in the batch has at most
\* one entry in pending, accepted and rejected together. Fails when the first
\* occurrence is accepted or rejected.
C3_OneEntryPerName ==
    Created => \A n \in Supplied : Occurrences(n) > 1 => Entries(CreatedImport, n) <= 1

\* C3, amended: after create, pending holds no name twice, and a name whose
\* first occurrence went to pending has exactly one entry in the three
\* buckets together.
C3_OnePendingEntryPerName ==
    Created => \A n \in Supplied :
        /\ Count(CreatedImport.pending, n) <= 1
        /\ FirstBucket(n) = "pending" => Entries(CreatedImport, n) = 1

C3_Witness ==
    /\ Created
    /\ \E n \in Supplied :
          /\ Occurrences(n) > 1
          /\ FirstBucket(n) = "pending"
          /\ \E k \in 1..Len(last.log) : last.log[k].name = n /\ last.log[k].bucket = "skipped"
          /\ CreatedImport.pending = <<n>>

\* C4, as claimed: a name whose duplicate query returns exactly one pig, of
\* the same name ignoring case, goes to rejected and not to pending. Fails:
\* the code tests the second result, so the name goes to pending.
C4_SingleExactMatchRejected ==
    CreateHandled => \A k \in 1..Len(last.log) :
        SingleExactMatch(last.log[k]) =>
            /\ last.log[k].bucket = "rejected"
            /\ Created => /\ Contains(CreatedImport.rejected, last.log[k].name)
                          /\ ~Contains(CreatedImport.pending, last.log[k].name)

\* C5, as claimed: a name whose duplicate query returns a non-empty result
\* other than a single exact match goes to pending. Fails: a result whose
\* second pig is an exact match sends the name to rejected.
C5_OtherMatchesPending ==
    CreateHandled => \A k \in 1..Len(last.log) :
        LET e == last.log[k]
        IN (e.search = "ok" /\ Len(e.duplicates) >= 1 /\ ~SingleExactMatch(e)) =>
              /\ e.bucket = "pending"
              /\ Created => /\ Contains(CreatedImport.pending, e.name)
                            /\ ~Contains(CreatedImport.rejected, e.name)

\* C6: when the duplicate query of a name returns no pig and the insert
\* succeeds, the create adds a pig with the normalized name to table pigs and
\* its id is in accepted; a batch of one such name is saved with
\* pending = [], accepted = [the new id], rejected = [] and finished set.
C6_ZeroMatchesCreatesPig ==
    [][(RequestStep /\ last'.kind = "create") =>
         \A k \in 1..Len(last'.log) :
            ZeroMatchesCreated(last'.log[k]) =>
               \E p \in pigs' \ pigs :
                  /\ p.name = Cleanup(last'.names[k])
                  /\ IsSome(last'.body) => Contains(Unwrap(last'.body).accepted, p.id)
                  /\ (IsSome(last'.body) /\ Len(last'.names) = 1) =>
                        /\ Unwrap(last'.body).pending = <<>>
                        /\ Unwrap(last'.body).accepted = <<p.id>>
                        /\ Unwrap(last'.body).rejected = <<>>
                        /\ IsSome(Unwrap(last'.body).finished)
                        /\ Unwrap(last'.body) \in bulk_imports']_vars

C6_Witness ==
    /\ Created
    /\ last.names = <<PaddedBob>>
    /\ ZeroMatchesCreated(last.log[1])
    /\ \E p \in pigs : p.name = Bob /\ CreatedImport.accepted = <<p.id>>
    /\ IsSome(CreatedImport.finished)

\* C7, as claimed: when the duplicate query of a name fails, the handler
\* tries to insert a pig for it, and the name goes to accepted if the insert
\* succeeds and to pending if it fails. Fails: no insert is tried.
C7_QueryErrorTriesInsert ==
    CreateHandled => \A k \in 1..Len(last.log) :
        last.log[k].search = "err" =>
            /\ last.log[k].insert \in {"ok", "err"}
            /\ last.log[k].insert = "ok" => last.log[k].bucket = "accepted"
            /\ last.log[k].insert = "err" => last.log[k].bucket = "pending"

\* C7, amended: when the duplicate query of a name fails, the handler inserts
\* no pig for it and the name goes to pending.
C7_QueryErrorGoesToPending ==
    [][(RequestStep /\ last'.kind = "create") =>
         /\ \A k \in 1..Len(last'.log) :
               last'.log[k].search = "err" =>
                  /\ last'.log[k].insert = "none"
                  /\ last'.log[k].bucket = "pending"
                  /\ IsSome(last'.body) => Contains(Unwrap(last'.body).pending, last'.log[k].name)
         /\ \A p \in pigs' \ pigs :
               \E k \in 1..Len(last'.log) :
                  last'.log[k].search = "ok" /\ last'.log[k].name = p.name]_vars

C7_Witness ==
    /\ Created
    /\ Len(last.log) = 1
    /\ last.log[1].search = "err"
    /\ CreatedImport.pending = <<last.log[1].name>>
    /\ CreatedImport.accepted = <<>>

\* C8: a failed duplicate query or a failed insert for one name does not
\* abort create: the name goes to pending, every input is classified, and
\* the response is 201 with the saved BulkImport unless the final insert fails.
C8_FailureIsolation ==
    CreateHandled =>
        /\ Len(last.log) = Len(last.names)
        /\ \A k \in 1..Len(last.log) :
              /\ last.log[k].input = last.names[k]
              /\ last.log[k].bucket \in {"pending", "accepted", "rejected", "skipped"}
              /\ ClassificationFailed(last.log[k]) =>
                    /\ last.log[k].bucket = "pending"
                    /\ Created => Contains(CreatedImport.pending, last.log[k].name)
        /\ last.save = "ok" => /\ last.status = 201
                               /\ Created
                               /\ CreatedImport \in bulk_imports
                               /\ \A k \in 1..Len(last.log) :
                                     Buckets(CreatedImport, last.log[k].name) >= 1

C8_Witness ==
    /\ Created
    /\ Len(last.log) = 2
    /\ ClassificationFailed(last.log[1])
    /\ last.log[2].bucket = "accepted"
    /\ Len(CreatedImport.pending) = 1 /\ Len(CreatedImport.accepted) = 1

InsertedPigs(log) == {k \in 1..Len(log) : log[k].insert = "ok"}

C10_AcceptLastPending ==
    [][\A row \in bulk_imports : \A n \in PatchNames : \A g \in PatchPigIds :
          (/\ RequestStep
           /\ row.pending = <<n>> /\ row.accepted = <<>>
           /\ last'.kind = "patch" /\ last'.status = 200
           /\ last'.patch = AcceptPatch(row.id, n, g)) =>
              \E new \in bulk_imports' :
                 /\ new.id = row.id
                 /\ new.pending = <<>>
                 /\ new.accepted = <<g>>
                 /\ new.rejected = row.rejected
                 /\ new.finished = Some(clock)
                 /\ bulk_imports' = (bulk_imports \ {row}) \cup {new}]_vars

C10_Witness ==
    /\ last.kind = "patch" /\ last.status = 200
    /\ last.patch = AcceptPatch(last.patch.id, Bob, 1)
    /\ Unwrap(last.loaded).pending = <<Bob>>
    /\ Unwrap(last.loaded).accepted = <<>>
    /\ Unwrap(last.loaded).finished = None
    /\ \E r \in bulk_imports :
          /\ r.id = last.patch.id
          /\ r.pending = <<>> /\ r.accepted = <<1>>
          /\ r.finished = Some(clock)

-----------------------------------------------------------------------------
(* Properties of one patch request *)

\* the patch handled last was applied and saved
PatchApplied == last.kind = "patch" /\ last.status = 200
\* the row as the handler loaded it, and as it is stored now
LoadedRow == Unwrap(last.loaded)
PatchedRow == CHOOSE r \in bulk_imports : r.id = last.patch.id

\* the bucket was patched with the one action REMOVE(x)
LoneRemove(actions, x) == actions = Some(<<REMOVE(x)>>)
\* one more REMOVE(x) leaves the bucket as it is
RemoveAgainNoOp(vec, x) == perform_actions(<<REMOVE(x)>>, vec) = vec
\* REMOVE(x) took out one occurrence of x, the first one, if there was any
RemovedFirst(before, after, x) ==
    IF Count(before, x) = 0
    THEN after = before
    ELSE /\ Count(after, x) = Count(before, x) - 1
         /\ after = RemoveAt(before, Position(before, x))

\* C11, as claimed: for any x and any bucket contents, REMOVE(x) applied
\* twice yields the same bucket as REMOVE(x) applied once. Fails for a
\* bucket that holds x twice: each REMOVE takes out one occurrence.
C11_RemoveTwiceAsOnce ==
    PatchApplied =>
        /\ \A x \in EngineNames :
              /\ LoneRemove(last.patch.pending, x) => RemoveAgainNoOp(PatchedRow.pending, x)
              /\ LoneRemove(last.patch.rejected, x) => RemoveAgainNoOp(PatchedRow.rejected, x)
        /\ \A g \in EnginePigIds :
              LoneRemove(last.patch.accepted, g) => RemoveAgainNoOp(PatchedRow.accepted, g)

\* C11, amended: REMOVE(x) takes out the first occurrence of x only; applied
\* twice it yields the same bucket as applied once exactly when the bucket
\* held x at most once.
C11_RemoveFirstOccurrence ==
    PatchApplied =>
        /\ \A x \in EngineNames :
              /\ LoneRemove(last.patch.pending, x) =>
                    /\ RemovedFirst(LoadedRow.pending, PatchedRow.pending, x)
                    /\ RemoveAgainNoOp(PatchedRow.pending, x) <=> Count(LoadedRow.pending, x) <= 1
              /\ LoneRemove(last.patch.rejected, x) =>
                    /\ RemovedFirst(LoadedRow.rejected, PatchedRow.rejected, x)
                    /\ RemoveAgainNoOp(PatchedRow.rejected, x) <=> Count(LoadedRow.rejected, x) <= 1
        /\ \A g \in EnginePigIds :
              LoneRemove(last.patch.accepted, g) =>
                 /\ RemovedFirst(LoadedRow.accepted, PatchedRow.accepted, g)
                 /\ RemoveAgainNoOp(PatchedRow.accepted, g) <=> Count(LoadedRow.accepted, g) <= 1

C11_Witness ==
    /\ PatchApplied
    /\ LoneRemove(last.patch.rejected, Bob)
    /\ LoadedRow.rejected = <<Al, Bob>>
    /\ PatchedRow.rejected = <<Al>>
    /\ RemoveAgainNoOp(PatchedRow.rejected, Bob)

\* the patch handled last, applied once more to the row it left
Reapplied == update_import(last.patch, PatchedRow)

\* what the actions of one bucket do when applied to the bucket a second
\* time: nothing if they are REMOVEs and UPDATEs of values the bucket no
\* longer holds; a lone ADD appends its value again
ReapplyRule(actions, after, again) ==
    IsSome(actions) =>
        LET A == Unwrap(actions)
        IN /\ (\A i \in 1..Len(A) : A[i].op # "ADD" /\ Count(after, A[i].a) = 0) => again = after
           /\ (Len(A) = 1 /\ A[1].op = "ADD") => again = Append(after, A[1].a)

\* C12, as claimed: applying the same patch body a second time leaves
\* pending, accepted and rejected as they were after the first application.
\* Fails for every patch with an ADD, which appends again.
C12_PatchIdempotent ==
    PatchApplied =>
        /\ Reapplied.pending = PatchedRow.pending
        /\ Reapplied.accepted = PatchedRow.accepted
        /\ Reapplied.rejected = PatchedRow.rejected

\* C12, amended: applied a second time, the REMOVE and UPDATE actions of a
\* patch change nothing when the value they name is no longer in the bucket,
\* and an ADD appends its value once more.
C12_ReapplyRemoveUpdateOnly ==
    PatchApplied =>
        /\ ReapplyRule(last.patch.pending, PatchedRow.pending, Reapplied.pending)
        /\ ReapplyRule(last.patch.accepted, PatchedRow.accepted, Reapplied.accepted)
        /\ ReapplyRule(last.patch.rejected, PatchedRow.rejected, Reapplied.rejected)
        /\ last.patch.pending = None => Reapplied.pending = PatchedRow.pending
        /\ last.patch.accepted = None => Reapplied.accepted = PatchedRow.accepted
        /\ last.patch.rejected = None => Reapplied.rejected = PatchedRow.rejected

C12_Witness ==
    /\ PatchApplied
    /\ last.patch = RejectPatch(1, Bob)
    /\ LoadedRow.pending = <<Bob>> /\ LoadedRow.rejected = <<>>
    /\ PatchedRow.pending = <<>> /\ PatchedRow.rejected = <<Bob>>
    /\ Reapplied.pending = <<>> /\ Reapplied.rejected = <<Bob, Bob>>

\* the step handles a patch of an authorised user whose id matches no row
PatchOfMissingRow ==
    /\ RequestStep
    /\ last'.kind = "patch" /\ last'.status # 403
    /\ \A r \in bulk_imports : r.id # last'.patch.id

\* C13, as claimed: a patch addressed to an id that does not exist is
\* answered with a not-found error (404) and changes nothing. Fails: the
\* answer is 500.
C13_MissingRowNotFound ==
    [][PatchOfMissingRow =>
          /\ last'.status = 404
          /\ bulk_imports' = bulk_imports]_vars

\* C13, amended: a patch addressed to an id that does not exist is answered
\* with an internal error (500) and changes neither table.
C13_MissingRowInternalError ==
    [][PatchOfMissingRow =>
          /\ last'.status = 500
          /\ last'.loaded = None /\ last'.save = "none"
          /\ bulk_imports' = bulk_imports
          /\ pigs' = pigs]_vars

C13_Witness ==
    /\ last.kind = "patch"
    /\ last.patch = RejectPatch(UnknownImportId, Bob)
    /\ last.load = "ok" /\ last.status = 500
    /\ \E r \in bulk_imports : Contains(r.pending, Bob) /\ ~Contains(r.rejected, Bob)

-----------------------------------------------------------------------------
(* Properties of the buckets over create and patch requests *)

\* the name is in pending and in rejected
InBoth(import, name) == Contains(import.pending, name) /\ Contains(import.rejected, name)

\* C16, as claimed: after create and after any sequence of patches, no name
\* is in both pending and rejected of a stored BulkImport. Fails: a patch
\* that adds a rejected name to pending is applied as it is.
C16_PendingRejectedDisjoint ==
    \A r \in bulk_imports : \A n \in PatchNames : ~InBoth(r, n)

\* C16, amended: a name supplied once is not in both pending and rejected
\* right after create, and the client's reject and accept patches of a name
\* that pending holds at most once leave the name out of pending, so not in
\* both.
C16_ClientPatchesKeepDisjoint ==
    [][/\ (RequestStep /\ last'.kind = "create" /\ IsSome(last'.body)) =>
             \A k \in 1..Len(last'.names) :
                LET n == Cleanup(last'.names[k])
                IN (\A j \in 1..Len(last'.names) : Cleanup(last'.names[j]) = n => j = k)
                      => ~InBoth(Unwrap(last'.body), n)
       /\ (RequestStep /\ last'.kind = "patch" /\ last'.status = 200) =>
             LET old == Unwrap(last'.loaded)
                 new == CHOOSE r \in bulk_imports' : r.id = old.id
             IN \A n \in PatchNames :
                   (/\ \/ last'.patch = RejectPatch(old.id, n)
                       \/ \E g \in PatchPigIds : last'.patch = AcceptPatch(old.id, n, g)
                    /\ Count(old.pending, n) <= 1) =>
                      /\ ~Contains(new.pending, n)
                      /\ ~InBoth(new, n)]_vars

C16_Witness ==
    /\ PatchApplied
    /\ last.patch = RejectPatch(last.patch.id, Bob)
    /\ LoadedRow.pending = <<Bob>> /\ LoadedRow.rejected = <<>>
    /\ PatchedRow.pending = <<>> /\ PatchedRow.rejected = <<Bob>>

\* the pigs a duplicate query returned, whatever their order
Returned(e) == {e.duplicates[i] : i \in 1..Len(e.duplicates)}

\* events k < j of one create classify the same name against the same
\* contents of table pigs: both queries succeed and return the same pigs,
\* and no pig is inserted from k to j
SameSnapshot(log, k, j) ==
    /\ k < j
    /\ log[k].name = log[j].name
    /\ log[k].search = "ok" /\ log[j].search = "ok"
    /\ Returned(log[k]) = Returned(log[j])
    /\ \A i \in k..j : log[i].insert = "none"

\* C17, as claimed: two classifications of the same normalized name against
\* the same contents of table pigs put it in the same bucket. Fails: the
\* bucket depends on the order the query returns the matching pigs in.
C17_SameSnapshotSameBucket ==
    CreateHandled =>
        \A k \in 1..Len(last.log) : \A j \in 1..Len(last.log) :
            SameSnapshot(last.log, k, j) => last.log[k].bucket = last.log[j].bucket

-----------------------------------------------------------------------------
(* Properties of the client and the server *)

\* a later request of the same kind was issued
Superseded(n, i) == \E j \in (i + 1)..Len(n) : n[j].kind = n[i].kind

\* a handle holds no receiver but that of the latest request of its kind
LatestTracked(c, n) ==
    \A kind \in Kinds :
        IsSome(c.receiver[kind]) =>
            /\ Unwrap(c.receiver[kind]) \in 1..Len(n)
            /\ n[Unwrap(c.receiver[kind])].kind = kind
            /\ ~Superseded(n, Unwrap(c.receiver[kind]))

\* the requests this step issues are the ones the handles hold after it
IssuedTracked ==
    \A j \in (Len(net) + 1)..Len(net') :
        ~Superseded(net', j) => client'.receiver[net'[j].kind] = Some(j)

\* a poll takes the result of no superseded request
DeliveredLatest ==
    \A i \in 1..Len(net) :
        (net[i].phase # "delivered" /\ net'[i].phase = "delivered") =>
            /\ Tracked(client, net, i)
            /\ ~Superseded(net, i)

\* the server applies a superseded patch like any other
SupersededPatchApplied ==
    \A i \in 1..Len(net) :
        (/\ net[i].kind = "patch"
         /\ Superseded(net, i)
         /\ net[i].phase = "sent"
         /\ net'[i].phase # "sent"
         /\ net'[i].result.status = "Received") =>
            /\ last' = PatchResponse(ClientUser, net[i].input, "ok", last'.loaded, "ok", 200)
            /\ Unwrap(last'.loaded) \in bulk_imports
            /\ bulk_imports' =
                UpdateBulkImport(bulk_imports,
                                 PatchFinished(update_import(net[i].input, Unwrap(last'.loaded)),
                                               clock),
                                 "ok")

\* C18: a handle tracks one request, the latest of its kind: a new request
\* replaces the receiver the handle held, the server still applies the
\* superseded request, and a poll never takes a superseded request's result.
C18_OnlyLatestTracked ==
    [][/\ LatestTracked(client', net')
       /\ IssuedTracked
       /\ DeliveredLatest
       /\ SupersededPatchApplied]_vars

\* a superseded reject was applied by the server and dropped, and the result
\* of the reject that replaced it was taken by a poll
C18_Witness ==
    \E i \in 1..Len(net) : \E j \in 1..Len(net) :
        /\ i < j
        /\ net[i].kind = "patch" /\ net[j].kind = "patch"
        /\ net[i].phase = "dropped" /\ net[i].result.status = "Received"
        /\ net[j].phase = "delivered" /\ net[j].result.status = "Received"

\* this step is the server's handling of request i
Served(i) ==
    /\ net[i].phase = "sent"
    /\ net'[i].phase # "sent"
    /\ net'[i].result # Errored(0)

\* this step is the poll that takes the result of request i
Polled(i) == net[i].phase = "answered" /\ net'[i].phase = "delivered"

\* the write-back of a patch fails: internal error, and the table is as it was
FailedWriteAnswered ==
    \A i \in 1..Len(net) :
        (Served(i) /\ net[i].kind = "patch" /\ last'.save = "err") =>
            /\ last'.status = 500
            /\ bulk_imports' = bulk_imports
            /\ net'[i].result = Errored(500)

\* the poll of a patch that was answered with an error merges nothing
FailedPatchNotMerged ==
    \A i \in 1..Len(net) :
        (/\ Polled(i)
         /\ net[i].kind = "patch"
         /\ net[i].result.status = "Errored"
         /\ check_response_status(World(client, net), "create").status = "Pending"
         /\ check_response_status(World(client, net), "fetch_url_selection").status = "Pending") =>
            /\ client'.selected_import = client.selected_import
            /\ client'.selected_pig = client.selected_pig
            /\ \E k \in 1..Len(client'.display_error) :
                client'.display_error[k] = net[i].result.code

\* C14: when the write-back of a patched import fails, the request is
\* answered 500, table bulk_imports is what it was before the request, and
\* the client, polling the error, leaves its selected import as it was.
C14_FailedWriteDiscarded ==
    [][FailedWriteAnswered /\ FailedPatchNotMerged]_vars

\* a reject whose write-back failed was polled by the client
C14_Witness ==
    /\ last.kind = "patch" /\ last.save = "err"
    /\ bulk_imports = {OpenedImport}
    /\ client.selected_import = Some(OpenedImport)
    /\ \E i \in 1..Len(net) :
        /\ net[i].kind = "patch"
        /\ net[i].phase = "delivered"
        /\ net[i].result = Errored(500)
        /\ last.patch = net[i].input

\* the values the selected import may take without any patch: a click on the
\* sidebar, a created import, a fetched selection
UnpatchedSelections ==
    LET w == World(client, net)
        created == ReceivedValue(w, "create")
        fetched == ReceivedValue(w, "fetch_url_selection")
    IN {client.selected_import, None}
       \cup (IF IsSome(client.all_imports)
             THEN {Some(Unwrap(client.all_imports)[j]) : j \in 1..Len(Unwrap(client.all_imports))}
             ELSE {})
       \cup (IF IsSome(created) THEN {created} ELSE {})
       \cup (IF IsSome(fetched)
             THEN {Some(Unwrap(fetched)[j]) : j \in 1..Len(Unwrap(fetched))}
             ELSE {})

\* while no successful answer to the patch the handle tracks is there to be
\* polled, no step merges a patch into the selected import
NoMergeBeforeAnswer ==
    check_response_status(World(client, net), "patch").status # "Received" =>
        client'.selected_import \in UnpatchedSelections

\* the client is handed a patch as successful only by the server's 200
ReceivedMeansApplied ==
    \A i \in 1..Len(net) :
        (/\ net[i].kind = "patch"
         /\ net[i].result.status # "Received"
         /\ net'[i].result.status = "Received") =>
            /\ Served(i)
            /\ last' = PatchResponse(ClientUser, net[i].input, "ok", last'.loaded, "ok", 200)
            /\ net'[i].result = Received(net[i].input)

\* C19: the client changes its selected import on account of a patch only
\* in the poll that takes the server's successful answer to that patch: a
\* patch in flight, failed, superseded or dropped is never merged.
C19_MergeOnlyAfterSuccess ==
    [][NoMergeBeforeAnswer /\ ReceivedMeansApplied]_vars

\* the reject of Bob was answered 200 and merged, after an earlier reject had
\* failed and left the selected import as it was
C19_Witness ==
    /\ IsSome(client.selected_import)
    /\ Unwrap(client.selected_import).pending = <<Al>>
    /\ Unwrap(client.selected_import).rejected = <<Bob>>
    /\ \E i \in 1..Len(net) : \E j \in 1..Len(net) :
        /\ i < j
        /\ net[i].kind = "patch" /\ net[i].phase = "delivered"
        /\ net[i].result.status = "Errored"
        /\ net[j].kind = "patch" /\ net[j].phase = "delivered"
        /\ net[j].result.status = "Received"

\* every request the client issued has run its course
Quiet ==
    /\ \A kind \in Kinds : client.receiver[kind] = None
    /\ \A i \in 1..Len(net) : net[i].phase \in {"delivered", "dropped"}

\* C20, as claimed: with nothing in flight, the buckets of the client's
\* selected import equal those of the server's row with its id. Fails: a
\* reject issued while another is in flight replaces its handle; the server
\* applies both, the client merges only the second.
C20_CacheEqualsServer ==
    (Quiet /\ IsSome(client.selected_import)) =>
        \E r \in bulk_imports :
            /\ r.id = Unwrap(client.selected_import).id
            /\ r.pending = Unwrap(client.selected_import).pending
            /\ r.accepted = Unwrap(client.selected_import).accepted
            /\ r.rejected = Unwrap(client.selected_import).rejected

-----------------------------------------------------------------------------
(* Properties of REMOVE and UPDATE *)

\* k is the first place of before that holds v
FirstAt(before, k, v) ==
    /\ k \in 1..Len(before)
    /\ before[k] = v
    /\ \A j \in 1..(k - 1) : before[j] # v

\* after is before without its first v, or before itself if it holds no v
OnlyFirstRemoved(before, after, v) ==
    IF \A j \in 1..Len(before) : before[j] # v
    THEN after = before
    ELSE \E k \in 1..Len(before) :
            /\ FirstAt(before, k, v)
            /\ Len(after) = Len(before) - 1
            /\ \A j \in 1..(k - 1) : after[j] = before[j]
            /\ \A j \in k..Len(after) : after[j] = before[j + 1]

\* after is before with its first old replaced in place by new, or before
\* itself if it holds no old
OnlyFirstUpdated(before, after, old, new) ==
    IF \A j \in 1..Len(before) : before[j] # old
    THEN after = before
    ELSE \E k \in 1..Len(before) :
            /\ FirstAt(before, k, old)
            /\ Len(after) = Len(before)
            /\ after[k] = new
            /\ \A j \in (1..Len(before)) \ {k} : after[j] = before[j]

\* what the one action of a bucket's list did to the bucket
LoneActionRule(actions, before, after) ==
    (IsSome(actions) /\ Len(Unwrap(actions)) = 1) =>
        LET action == Unwrap(actions)[1]
        IN /\ action.op = "REMOVE" => OnlyFirstRemoved(before, after, action.a)
           /\ action.op = "UPDATE" => OnlyFirstUpdated(before, after, action.a, action.b)

\* C30: REMOVE(v) deletes the first occurrence of v only and UPDATE(old, new)
\* replaces the first occurrence of old only, in place; every other element
\* keeps its value and its place; when the value is absent the bucket stays
\* as it is and the request is answered 200 all the same.
C30_FirstOccurrenceOnly ==
    /\ (last.kind = "patch" /\ last.save = "ok") => last.status = 200
    /\ PatchApplied =>
        /\ LoneActionRule(last.patch.pending, LoadedRow.pending, PatchedRow.pending)
        /\ LoneActionRule(last.patch.accepted, LoadedRow.accepted, PatchedRow.accepted)
        /\ LoneActionRule(last.patch.rejected, LoadedRow.rejected, PatchedRow.rejected)

\* UPDATE(Bob, Al) on a bucket that holds Bob twice
C30_Witness ==
    /\ PatchApplied
    /\ last.patch.pending = Some(<<UPDATE(Bob, Al)>>)
    /\ LoadedRow.pending = <<Bob, Al, Bob>>
    /\ PatchedRow.pending = <<Al, Al, Bob>>

-----------------------------------------------------------------------------
(* Properties of the fetch endpoint and of the role checks *)

\* the response of the last request is a list of imports
Fetched == last.kind = "fetch" /\ last.status = 200

\* C24: a fetch by a caller who is no BulkAdmin returns only imports whose
\* creator is the caller, whatever the id and creator filters of the query
C24_OnlyOwnImports ==
    (Fetched /\ "BulkAdmin" \notin get_user_roles(last.user))
        => \A i \in 1..Len(Unwrap(last.body)) : Unwrap(last.body)[i].creator = last.user

\* an editor asked for the imports of the other editor, who has one, and got
\* their own import
C24_Witness ==
    /\ Fetched
    /\ last.user = "editor"
    /\ last.query.creator = Some(<<UuidString("other")>>)
    /\ \E r \in bulk_imports : r.creator = "other"
    /\ Len(Unwrap(last.body)) = 1

\* a filter of the query holds a string that is no identifier
HasMalformed(filter) ==
    IsSome(filter) /\ \E i \in 1..Len(Unwrap(filter)) : ~Unwrap(filter)[i].valid

\* C25: a fetch whose id or creator filter holds a malformed identifier is
\* answered 400 before the table is read, and returns no imports
C25_MalformedRejected ==
    (last.kind = "fetch" /\ (HasMalformed(last.query.id) \/ HasMalformed(last.query.creator)))
        => (last.status \in {400, 403} /\ last.load = "none" /\ last.body = None)

\* the caller of the request a step handles lacks the role its endpoint asks
\* for: BulkEditor for create and patch, BulkEditor or BulkAdmin for fetch
LacksRole ==
    LET roles == get_user_roles(last'.user)
    IN \/ last'.kind \in {"create", "patch"} /\ "BulkEditor" \notin roles
       \/ last'.kind = "fetch" /\ roles \cap {"BulkEditor", "BulkAdmin"} = {}

PatchOfForeignImport ==
    /\ last'.kind = "patch"
    /\ "BulkAdmin" \notin get_user_roles(last'.user)
    /\ \E r \in bulk_imports : r.id = last'.patch.id /\ r.creator # last'.user

\* C27: a caller with BulkEditor but not BulkAdmin can patch only the imports
\* they created: the patch of another user's import is refused and leaves the
\* import as it was
C27_OnlyOwnImportsPatched ==
    [][PatchOfForeignImport => (last'.status # 200 /\ bulk_imports' = bulk_imports)]_vars

-----------------------------------------------------------------------------
(* Properties of the stored imports *)

\* the row of the table after the step that has the id of r
RowAfter(r) == CHOOSE n \in bulk_imports' : n.id = r.id

\* the step is a patch addressed to r
Addressed(r) == last'.kind = "patch" /\ last'.patch.id = r.id

\* C29: no patch changes the id, name, creator or started of the import it
\* addresses, no patch changes another import, and no request deletes an
\* import
C29_ImmutableFields ==
    [][\A r \in bulk_imports :
          /\ \E n \in bulk_imports' : n.id = r.id
          /\ Cardinality({n \in bulk_imports' : n.id = r.id}) = 1
          /\ RowAfter(r).name = r.name
          /\ RowAfter(r).creator = r.creator
          /\ RowAfter(r).started = r.started
          /\ ~Addressed(r) => RowAfter(r) = r]_vars

\* a patch changed the buckets of one of two stored imports
C29_Witness ==
    /\ last.kind = "patch"
    /\ last.status = 200
    /\ Cardinality(bulk_imports) = 2
    /\ IsSome(last.loaded)
    /\ \E r \in bulk_imports : r.id = last.patch.id /\ r # Unwrap(last.loaded)

-----------------------------------------------------------------------------
(* Properties of concurrent handlers *)

\* thread t holds the guard of db_connection
InCritical(t) == handler[t].pc \in {"locked", "loaded", "applied"}

\* the row of the table with the id of the patch of thread t
AddressedRow(t) == CHOOSE r \in bulk_imports : r.id = handler[t].patch.id

\* what thread t holds is what it would get from the table now: no other
\* write came between its load and its write
LoadStillCurrent(t) ==
    /\ handler[t].pc = "loaded" => handler[t].import = Some(AddressedRow(t))
    /\ handler[t].pc = "applied" =>
          /\ handler[t].loaded = Some(AddressedRow(t))
          /\ handler[t].import =
                Some(PatchFinished(update_import(handler[t].patch, AddressedRow(t)), clock))

\* the patches of the threads in order o applied to import, one after the other
RECURSIVE AppliedInOrder(_, _)
AppliedInOrder(o, import) ==
    IF Len(o) = 0 THEN import
    ELSE AppliedInOrder(Tail(o), PatchFinished(update_import(handler[Head(o)].patch, import), clock))

\* the threads whose patch of LockedImport was answered 200
Patched == {t \in Threads : handler[t].kind = "patch" /\ handler[t].status = 200}

\* once every thread is done, the stored import is what the answered patches
\* give when applied one at a time, in some order
NoLostUpdate ==
    (\A t \in Threads : handler[t].pc \in {"idle", "done"})
        => \E o \in Orderings(Patched) :
              \E r \in bulk_imports : r.id = LockedImport.id /\ r = AppliedInOrder(o, LockedImport)

\* C28: no two handlers that change imports run at the same time: one thread
\* at most is between its lock and its return, the import a patch handler
\* loaded is still the stored one when it writes, and no answered patch is
\* lost
C28_MutationsSerialized ==
    /\ \A t, u \in Threads : (InCritical(t) /\ InCritical(u)) => t = u
    /\ \A t \in Threads : InCritical(t) => db_connection = Some(t)
    /\ \A t \in Threads : LoadStillCurrent(t)
    /\ NoLostUpdate

\* two patches of the same import were both answered 200, and a thread had
\* to wait: both are in the stored import
C28_Witness ==
    /\ Cardinality(Patched) = 2
    /\ \A t \in Patched : handler[t].patch.id = LockedImport.id
    /\ \E t, u \in Patched : handler[t].patch # handler[u].patch
    /\ \E r \in bulk_imports : r.id = LockedImport.id /\ Len(r.pending) = 0

-----------------------------------------------------------------------------
(* Properties of failed requests of the client *)

\* the frame of the step takes the result of request i, a failure with code,
\* out of a handle of the bulk page
FailedPoll(i, code) ==
    Polled(i) /\ net[i].kind \in Kinds /\ net[i].result = Errored(code)

\* the frame of the step takes the answer to the session check
SessionCheckPolled(result) ==
    \E i \in 1..Len(net) : Polled(i) /\ net[i].kind = AuthKind /\ net[i].result = result

\* the codes a failed request can carry: no response, or the status
ErrorCodes == {0, 401, 403, 500}

\* the failures with code the frame of the step takes out of any handle
FailuresPolled(code) ==
    Cardinality({i \in 1..Len(net) : Polled(i) /\ net[i].result = Errored(code)})

\* the errors with code the list holds when the page takes its results: the
\* layout has emptied the list if the session check said "not signed in"
QueuedBefore(code) ==
    IF SessionCheckPolled(Received(None)) THEN 0 ELSE Count(client.display_error, code)

\* the step changes authorized only if it takes a 401 or the answer to the
\* session check
AuthorizedKept ==
    (/\ \A i \in 1..Len(net) : ~FailedPoll(i, 401)
     /\ \A i \in 1..Len(net) : ~(Polled(i) /\ net[i].kind = AuthKind
                                   /\ net[i].result.status = "Received"))
        => client'.authorized = client.authorized

\* C21 as stated: a response that says the role check failed (403) clears
\* authorized and is not put on the error list
C21_RoleRejectionClearsSession ==
    [][\A i \in 1..Len(net) :
          FailedPoll(i, 403) =>
              /\ ~IsSome(client'.authorized)
              /\ Count(client'.display_error, 403) = QueuedBefore(403)
              /\ client'.receiver[net[i].kind] # Some(i)]_vars

\* C21, amended: a 401, the answer of a request without a valid session,
\* clears authorized and is not put on the error list; every other failure,
\* the 403 of a failed role check included, is appended to the error list and
\* leaves authorized alone; the handle drops its receiver in both cases
C21_SessionLossClearsSession ==
    [][/\ \A i \in 1..Len(net), code \in ErrorCodes :
            FailedPoll(i, code) =>
                /\ client'.receiver[net[i].kind] # Some(i)
                /\ code = 401 => ~IsSome(client'.authorized)
                /\ Count(client'.display_error, code) =
                      QueuedBefore(code) + (IF code = 401 THEN 0 ELSE FailuresPolled(code))
       /\ AuthorizedKept]_vars

\* the patch of the operator was refused for the role: the 403 is on the
\* error list, the operator is still signed in, the handle is free
C21_Witness ==
    /\ \E i \in 1..Len(net) :
          /\ net[i].kind = "patch"
          /\ net[i].phase = "delivered"
          /\ net[i].result = Errored(403)
    /\ IsSome(client.authorized)
    /\ Contains(client.display_error, 403)
    /\ client.receiver["patch"] = None

\* the errors queued before the step are still the head of the list
QueuedKept ==
    /\ Len(client'.display_error) >= Len(client.display_error)
    /\ SubSeq(client'.display_error, 1, Len(client.display_error)) = client.display_error

\* C22 as stated: once a 401 has been processed, the re-authentication
\* prompt is shown and the error list shows no errors
C22_NoErrorsAfter401 ==
    [][(SessionCheckPolled(Received(None)) \/ \E i \in 1..Len(net) : FailedPoll(i, 401))
          => (~IsSome(client'.authorized) /\ client'.display_error = <<>>)]_vars

\* C22, amended: when the session check is answered 401 the prompt is shown
\* and the errors queued until then are removed, the list keeping only the
\* failures the page takes in the same frame; when another request fails
\* with 401 the prompt is shown, the 401 is not queued and the queued errors
\* stay
C22_OnlySessionCheckClears ==
    [][/\ SessionCheckPolled(Received(None)) =>
            /\ ~IsSome(client'.authorized)
            /\ \A code \in ErrorCodes :
                  Count(client'.display_error, code) =
                      IF code = 401 THEN 0 ELSE FailuresPolled(code)
       /\ \A i \in 1..Len(net) :
            FailedPoll(i, 401) =>
                /\ ~IsSome(client'.authorized)
                /\ ~SessionCheckPolled(Received(None)) => QueuedKept
                /\ Count(client'.display_error, 401) = 0]_vars

\* a patch failed and its error was queued; the next patch was answered 401:
\* the prompt is shown and the error of the first is still on the list
C22_Witness ==
    /\ Len(net) = 3
    /\ net[2].kind = "patch" /\ net[2].phase = "delivered" /\ net[2].result = Errored(500)
    /\ net[3].kind = "patch" /\ net[3].phase = "delivered" /\ net[3].result = Errored(401)
    /\ net[1].phase = "sent"
    /\ LoginShown
    /\ client.display_error = <<500>>

-----------------------------------------------------------------------------
(* Properties of the dirty flag *)

\* the step leaves the selection and the edit box as they are
SelectionKept ==
    /\ client'.selected_import = client.selected_import
    /\ client'.selected_pig = client.selected_pig
    /\ client'.updated_name = client.updated_name

\* the step makes the selection and the edit box what action asks for
Performed(action) ==
    IF action.kind = "SelectImport"
    THEN /\ client'.selected_import = action.selection
         /\ client'.selected_pig = None
         /\ client'.updated_name = <<>>
    ELSE /\ client'.selected_import = client.selected_import
         /\ client'.selected_pig = action.selection
         /\ client'.updated_name =
               IF IsSome(action.selection) /\ Unwrap(action.selection).kind = "Pending"
               THEN Unwrap(action.selection).name
               ELSE <<>>

\* C23: while dirty is set, the click on another import or on a name changes
\* neither the selection nor the edit box: it is kept as the deferred action
\* and the dirty modal is shown; "Yes" clears dirty and performs the deferred
\* action; "Cancel" performs nothing and leaves dirty as it is
C23_DirtyDefers ==
    [][/\ (client.dirty /\ (ClickImport \/ ClickName)) =>
            /\ SelectionKept
            /\ client'.dirty
            /\ client'.dirty_modal # DirtyNone
       /\ ModalConfirm =>
            /\ Performed(client.dirty_modal)
            /\ ~client'.dirty
            /\ client'.dirty_modal = DirtyNone
       /\ ModalCancel =>
            /\ SelectionKept
            /\ client'.dirty = client.dirty
            /\ client'.dirty_modal = DirtyNone]_vars

\* the operator typed into the edit box and clicked the other import: the
\* click waits in the dirty modal, the selection and the text are still there
C23_Witness ==
    /\ client.dirty
    /\ client.dirty_modal = SelectImport(Some(OtherImport))
    /\ client.selected_import = Some(OpenedImport)
    /\ client.selected_pig = Some(PendingPig(Bob))
    /\ client.updated_name = BobS

-----------------------------------------------------------------------------
(* Properties of the order of the actions *)

\* the bucket after the first k actions of the list, each applied to what
\* the one before it left
RECURSIVE AfterFirst(_, _, _)
AfterFirst(actions, k, vec) ==
    IF k = 0 THEN vec ELSE perform_action(actions[k], AfterFirst(actions, k - 1, vec))

\* the bucket after the list of the patch, if the patch has one
InArrayOrder(list, before, after) ==
    IF IsSome(list)
    THEN after = AfterFirst(Unwrap(list), Len(Unwrap(list)), before)
    ELSE after = before

\* ADD then REMOVE of a value the bucket lacks leaves the bucket; REMOVE then
\* ADD appends the value
AddRemoveRule(list, before, after) ==
    \A x \in EngineNames :
        Count(before, x) = 0 =>
            /\ list = Some(<<ADD(x), REMOVE(x)>>) => after = before
            /\ list = Some(<<REMOVE(x), ADD(x)>>) => after = Append(before, x)

\* C31: the actions of a list are applied in array order, each to the result
\* of the one before; a list changes its own bucket only, so a bucket the
\* patch has no list for is left as it was
C31_ArrayOrder ==
    PatchApplied =>
        /\ InArrayOrder(last.patch.pending, LoadedRow.pending, PatchedRow.pending)
        /\ InArrayOrder(last.patch.accepted, LoadedRow.accepted, PatchedRow.accepted)
        /\ InArrayOrder(last.patch.rejected, LoadedRow.rejected, PatchedRow.rejected)
        /\ AddRemoveRule(last.patch.pending, LoadedRow.pending, PatchedRow.pending)

\* [REMOVE(Al), ADD(Al)] on pending [Bob], with lists for the other buckets
C31_Witness ==
    /\ PatchApplied
    /\ last.patch.pending = Some(<<REMOVE(Al), ADD(Al)>>)
    /\ last.patch.accepted = Some(<<ADD(2)>>)
    /\ last.patch.rejected = None
    /\ LoadedRow.pending = <<Bob>>
    /\ PatchedRow.pending = <<Bob, Al>>
    /\ PatchedRow.accepted = Append(LoadedRow.accepted, 2)
    /\ PatchedRow.rejected = LoadedRow.rejected

-----------------------------------------------------------------------------
(* Properties of the handles: delivery and waiting *)

\* the handles of the layout and of the page
Handles == Kinds \cup {AuthKind}

\* a poll of a handle that has a result clears the handle, and the poll
\* after it reports Pending
PollClears ==
    \A kind \in Handles :
        LET w == World(client, net)
            w1 == resolve(w, kind)
        IN check_response_status(w, kind).status # "Pending" =>
              /\ w1.c.receiver[kind] = None
              /\ w1.n[Unwrap(client.receiver[kind])].phase = "delivered"
              /\ check_response_status(w1, kind) = StatusPending

\* the result of request i is taken by one poll at most: the handle is
\* Pending after that poll, and holds a request issued later if it holds any
DeliveredOnce ==
    \A i \in 1..Len(net) :
        /\ Polled(i) =>
              /\ net[i].result.status \in {"Received", "Errored"}
              /\ check_response_status(World(client', net'), net[i].kind) = StatusPending
              /\ \/ client'.receiver[net[i].kind] = None
                 \/ Unwrap(client'.receiver[net[i].kind]) > Len(net)
        /\ net[i].phase \in {"delivered", "dropped"} =>
              /\ net'[i].phase = net[i].phase
              /\ ~Tracked(client', net', i)

\* C32: a response, success or failure, is delivered once at most: the
\* first poll after it arrived returns it and clears the handle, and the
\* polls after that report Pending until a new request is issued
C32_DeliveredOnce == [](PollClears) /\ [][DeliveredOnce]_vars

\* a success and a failure were delivered, and their handles are clear
C32_Witness ==
    \E i, j \in 1..Len(net) :
        /\ net[i].phase = "delivered" /\ net[i].result.status = "Received"
        /\ net[j].phase = "delivered" /\ net[j].result.status = "Errored"
        /\ client.receiver[net[i].kind] = None
        /\ client.receiver[net[j].kind] = None

\* request i is in flight and its handle reports Pending
InFlight(c, n, i) ==
    /\ n[i].phase = "sent"
    /\ Tracked(c, n, i)
    /\ check_response_status(World(c, n), n[i].kind) = StatusPending

\* a request without a result stays in flight, whatever is polled, until the
\* network delivers its result or a request of its kind takes its handle
StaysInFlight ==
    \A i \in 1..Len(net) :
        net[i].phase = "sent" /\ Tracked(client, net, i) =>
            \/ InFlight(client', net', i)
            \/ net'[i].phase = "answered" /\ Tracked(client', net', i)
            \/ /\ net'[i].phase = "sent"
               /\ IsSome(client'.receiver[net[i].kind])
               /\ Unwrap(client'.receiver[net[i].kind]) > Len(net)

\* a request that is sent and held by its handle reports Pending
SentIsPending ==
    \A i \in 1..Len(net) :
        net[i].phase = "sent" /\ Tracked(client, net, i) => InFlight(client, net, i)

\* C33: there is no timeout: an operation whose network call has no result
\* stays in flight, every poll reports Pending and keeps the handle, until a
\* request of the same kind supersedes it
C33_NoTimeout == [](SentIsPending) /\ [][StaysInFlight]_vars

\* the session check is still in flight after a frame took the result of a
\* request issued after it
C33_Witness ==
    \E i, j \in 1..Len(net) :
        /\ i < j
        /\ InFlight(client, net, i)
        /\ net[j].phase = "delivered"

-----------------------------------------------------------------------------
(* Properties of the selection while a request is in flight *)

\* this step takes the confirmation of patch request i while an import other
\* than the one the patch is addressed to is selected
ConfirmedForOther(i) ==
    /\ Polled(i)
    /\ net[i].kind = "patch"
    /\ net[i].result.status = "Received"
    /\ IsSome(client.selected_import)
    /\ Unwrap(client.selected_import).id # net[i].input.id

\* C34: a confirmed patch is merged only into the cached import of the id of
\* the patch: the cached buckets of another import the operator selected in
\* the meantime, and its entry in the cached list, are left as they were
C34_MergedIntoOwnImport ==
    [][\A i \in 1..Len(net) :
          ConfirmedForOther(i) =>
              /\ client'.selected_import = client.selected_import
              /\ client'.all_imports = client.all_imports]_vars

\* this step takes the entity that create_pig request i created
PigReceived(i) ==
    /\ Polled(i)
    /\ net[i].kind = "create_pig"
    /\ net[i].result.status = "Received"

\* C35: when the creation started by Accept for the pending name n succeeds,
\* the client issues the patch {pending: [REMOVE(n)], accepted: [ADD(id of
\* the new entity)]} to the import, whatever was selected in the meantime
\* (the edit box is left as the selection filled it, so n is the name sent)
C35_AcceptPatchIssued ==
    [][\A i \in 1..Len(net) :
          PigReceived(i) =>
              \E j \in (Len(net) + 1)..Len(net') :
                  /\ net'[j].kind = "patch"
                  /\ \E row \in bulk_imports :
                        net'[j].input =
                            AcceptPatch(row.id, net[i].input, Unwrap(net[i].result.value).id)]_vars

\* this step takes the fresh copy that fetch_url_selection request i asked
\* for, while the import it asked for is still the selected one
FreshCopyReceived(i) ==
    /\ Polled(i)
    /\ net[i].kind = "fetch_url_selection"
    /\ net[i].result.status = "Received"
    /\ Unwrap(net[i].result.value) # <<>>
    /\ IsSome(client.selected_import)
    /\ net[i].input = with_id(BulkQueryDefault, Unwrap(client.selected_import).id)

\* this step takes the confirmation of a patch and leaves the selected
\* import of the cache without pending names
LeftNothingPending ==
    /\ \E i \in 1..Len(net) :
          Polled(i) /\ net[i].kind = "patch" /\ net[i].result.status = "Received"
    /\ IsSome(client'.selected_import)
    /\ Len(Unwrap(client'.selected_import).pending) = 0

\* C36: after a confirmed patch leaves the selected import of the cache with
\* no pending name, the client asks for a fresh copy of that import by its
\* id, and once that copy has arrived (the import being still selected) the
\* selected import of the cache is finished
C36_ShownComplete ==
    [][/\ LeftNothingPending =>
             /\ Len(net') = Len(net) + 1
             /\ net'[Len(net')].kind = "fetch_url_selection"
             /\ net'[Len(net')].input =
                    with_id(BulkQueryDefault, Unwrap(client'.selected_import).id)
       /\ \A i \in 1..Len(net) :
             FreshCopyReceived(i) =>
                 /\ IsSome(client'.selected_import)
                 /\ IsSome(Unwrap(client'.selected_import).finished)]_vars

-----------------------------------------------------------------------------
(* Properties of the finished time over later patches *)

\* C37: once finished is set its value stays the same: a later patch that
\* leaves pending empty (one of accepted or rejected only, or a patch sent
\* again) does not change the finished time
C37_FinishedKept ==
    [][(RequestStep /\ last'.kind = "patch" /\ last'.status = 200) =>
          LET old == Unwrap(last'.loaded)
              new == CHOOSE r \in bulk_imports' : r.id = old.id
          IN (IsSome(old.finished) /\ new.pending = <<>>) =>
                new.finished = old.finished]_vars

-----------------------------------------------------------------------------
(* Properties of create requests handled at the same time *)

\* thread t is in the classification loop of a create request
InLoop(t) == handler[t].kind = "create" /\ handler[t].pc \in {"locked", "searched"}

\* the names thread t created a pig for
CreatedBy(t) ==
    {handler[t].st.log[k].name :
        k \in {j \in 1..Len(handler[t].st.log) : handler[t].st.log[j].insert = "ok"}}

=============================================================================
